---- MODULE Spec2Model ----
(***************************************************************************)
(* fastapi-radar: the capture middleware (RadarMiddleware.dispatch), the   *)
(* query-capture listener, the Tortoise interception hook and the trace    *)
(* builder, as state machines.                                             *)
(*                                                                         *)
(* Spec      concurrently served requests through one RadarMiddleware      *)
(*           instance with one registered QueryCapture listener.           *)
(* SpecFaults, SpecStream  the same with storage writes that fail.         *)
(* SpecHook, SpecHookCalls  calls through the wrapped execute entry points *)
(*           with a list of arbitrary listeners.                           *)
(***************************************************************************)
EXTENDS Integers, Sequences, FiniteSets, TLC

\* ------------------------------------------------------------------ bounds
NReq == 2           \* requests served (concurrently) in a run
MaxQueries == 1     \* data-access calls one request's handler task makes
MaxFaults == 2      \* storage writes the environment makes fail in a run
MaxChunks == 3      \* body chunks of one response (each chunk is one character)
MaxBodySize == 2    \* RadarMiddleware.max_body_size, in characters
MaxListeners == 2   \* listeners registered in a run
MaxCalls == 2       \* concurrent host calls through the wrapped entry points
MaxCallsRegistering == 1 \* host calls in a run that follows registrations or client spans
MaxSpans == 4       \* spans a host creates in one TraceContext
MaxFinishes == 1    \* finish_span calls a host makes on one TraceContext
MaxLogs == 1        \* add_span_log calls a host makes on one TraceContext
MaxDuration == 2    \* largest duration_ms QueryCapture.after_query measures
MaxThreshold == 1   \* largest QueryCapture.slow_query_threshold, in the unit of duration_ms
MaxNow == 2         \* hours the wall clock advances in a run
MaxOps == 2         \* cleanup and clear_data calls in a run
MaxStart == 3       \* latest start_time of a stored span, in units of 5 ms
MaxStored == 3      \* spans of the trace whose waterfall is asked for
MaxTasks == 2       \* tracked background tasks that run concurrently
MaxBodyLen == 3     \* bytes of a request body
MaxLimit == 2       \* largest max_body_size

Reqs == 1..NReq

\* ------------------------------------------------------------------ values
\* Python's None; identifiers are tuples, so that any two of them compare.
None == <<>>
\* uuid.uuid4(): the n-th value drawn while serving request r.
Uuid(r, n) == <<"uuid", r, n>>
\* The requests that arrive: path (segments) and the inbound x-trace-id and
\* x-parent-span-id headers.
Inputs ==
    {[path |-> <<"api">>, x_trace_id |-> None, x_parent_span_id |-> None],
     [path |-> <<"api">>, x_trace_id |-> <<"hdr", "T">>, x_parent_span_id |-> <<"hdr", "P">>],
     [path |-> <<"__radar", "api">>, x_trace_id |-> None, x_parent_span_id |-> None]}
\* RadarMiddleware.exclude_paths as Radar.__init__ sets it.
exclude_paths == {<<"__radar">>, <<"favicon.ico">>}

\* Execution units: the task that runs dispatch for request r, and the task
\* call_next starts for the wrapped application.
DispatchTask(r) == <<"dispatch", r>>
AppTask(r) == <<"app", r>>
Tasks == {DispatchTask(r) : r \in Reqs} \cup {AppTask(r) : r \in Reqs}

\* A reference to the TraceContext object request r constructed.
Ref(r) == <<"TraceContext", r>>
Deref(ref) == ref[2]

VARIABLES
    enable_tracing,     \* RadarMiddleware.enable_tracing
    storage_faults,     \* environment: whether storage writes may fail in this run
    faults_left,        \* environment: how many more storage writes may fail
    uuid_next,          \* number of uuid4 values drawn so far, per request
    request_context,    \* ContextVar "request_id": task -> value
    trace_context,      \* ContextVar "trace_context": task -> Ref or None
    pc,                 \* dispatch's position, per request
    loc,                \* dispatch's locals, per request
    app,                \* the wrapped application's task, per request
    trace_ctxs,         \* the TraceContext objects, by the request that made them
    exception_cache,    \* RadarMiddleware._exception_cache
    radar_requests,     \* CapturedRequest rows
    radar_queries,      \* CapturedQuery rows
    radar_exceptions,   \* CapturedException rows
    radar_traces,       \* Trace rows
    radar_spans,        \* Span rows
    radar_span_relations, \* SpanRelation rows
    listeners,          \* tortoise_patch._listeners
    calls,              \* SpecHook: the calls through the wrapped entry points
    hooklog,            \* SpecHook: per call, the listener hooks invoked and the real operation, in order
    slow_query_threshold, \* QueryCapture.slow_query_threshold
    now,                \* the wall clock, in hours
    radar_background_tasks, \* BackgroundTask rows
    api                 \* the call of a Radar operation or helper that is followed: arguments, position, result

mwVars == <<enable_tracing, storage_faults, faults_left, uuid_next, request_context, trace_context,
            pc, loc, app, trace_ctxs, exception_cache>>
dbVars == <<radar_requests, radar_queries, radar_exceptions, radar_traces,
            radar_spans, radar_span_relations>>
svcVars == <<now, radar_background_tasks, api>>
hookVars == <<listeners, calls, hooklog, slow_query_threshold, svcVars>>
mwVarsButApp == <<enable_tracing, storage_faults, faults_left, uuid_next, request_context, trace_context,
                  pc, loc, trace_ctxs, exception_cache>>
vars == <<mwVars, dbVars, hookVars>>

\* ------------------------------------------------------------ ContextVar
\* ContextVar.get() in task t.
ContextGet(cv, t) == cv[t]

\* ContextVar.set(v) in task t: binds v in t's own context only.
ContextSetShared(cv, t, v) == [u \in DOMAIN cv |-> v]
ContextSet(cv, t, v) == [cv EXCEPT ![t] = v]

\* A task started from task t runs in a copy of t's context.
ContextCopy(cv, t, child) == [cv EXCEPT ![child] = cv[t]]

\* ---------------------------------------------------------- TraceContext
NewTraceContext(trace_id) ==
    [trace_id |-> trace_id, root_span_id |-> None, current_span_id |-> None,
     spans |-> <<>>]

NoTraceContext == [trace_id |-> None, root_span_id |-> None, current_span_id |-> None,
                   spans |-> <<>>]

SpanIds(tc) == {tc.spans[i].span_id : i \in DOMAIN tc.spans}
SpanIndex(tc, sid) == CHOOSE i \in DOMAIN tc.spans : tc.spans[i].span_id = sid

\* TraceContext.create_span: `by` records the request whose task made the call,
\* `finishes` how many times finish_span has finished the span.
CreateSpanRerooting(tc, sid, parent, kind, by) ==
    [tc EXCEPT
       !.spans = Append(@, [span_id |-> sid,
                            parent_span_id |-> IF parent # None THEN parent
                                               ELSE tc.current_span_id,
                            span_kind |-> kind, status |-> "ok", ended |-> FALSE,
                            finishes |-> 0, logs |-> <<>>, by |-> by]),
       !.root_span_id = sid]
CreateSpan(tc, sid, parent, kind, by) ==
    LET span == [span_id |-> sid,
                 parent_span_id |-> IF parent # None THEN parent ELSE tc.current_span_id,
                 span_kind |-> kind, status |-> "ok", ended |-> FALSE,
                 finishes |-> 0, logs |-> <<>>, by |-> by]
    IN [tc EXCEPT
          !.spans = IF sid \in SpanIds(tc)
                    THEN [@ EXCEPT ![SpanIndex(tc, sid)] = span]
                    ELSE Append(@, span),
          !.root_span_id = IF @ = None THEN sid ELSE @]

\* TraceContext.finish_span
FinishSpanOk(tc, sid, status) ==
    IF sid \notin SpanIds(tc) THEN tc
    ELSE [tc EXCEPT !.spans[SpanIndex(tc, sid)] =
                        [@ EXCEPT !.ended = TRUE, !.status = "ok",
                                  !.finishes = @ + 1]]
FinishSpan(tc, sid, status) ==
    IF sid \notin SpanIds(tc) THEN tc
    ELSE [tc EXCEPT !.spans[SpanIndex(tc, sid)] =
                        [@ EXCEPT !.ended = TRUE, !.status = status,
                                  !.finishes = @ + 1]]

\* TraceContext.add_span_log
AddSpanLog(tc, sid, level) ==
    IF sid \notin SpanIds(tc) THEN tc
    ELSE [tc EXCEPT !.spans[SpanIndex(tc, sid)].logs = Append(@, level)]

\* TraceContext.set_current_span
SetCurrentSpan(tc, sid) == [tc EXCEPT !.current_span_id = sid]

\* TraceContext.get_trace_summary ({} when there is no span)
GetTraceSummary(tc) ==
    IF tc.spans = <<>> THEN [empty |-> TRUE]
    ELSE [empty |-> FALSE,
          trace_id |-> tc.trace_id,
          span_count |-> Len(tc.spans),
          status |-> IF \E i \in DOMAIN tc.spans : tc.spans[i].status = "error"
                     THEN "error" ELSE "ok"]

\* calculate_depth of _save_span_relations: the rows (parent, child, depth) in
\* the order the recursion emits them.  `fuel` bounds the recursion: a span
\* set of n spans without a cycle never nests deeper than n, so running out
\* of fuel is Python's RecursionError.
CalculateDepthOfChildren(span_id, spans, depth, fuel) ==
    [rels |-> SelectSeq([i \in DOMAIN spans |->
                            [parent_span_id |-> span_id,
                             child_span_id |-> spans[i].span_id,
                             depth |-> depth + 1]],
                        LAMBDA rel : \E i \in DOMAIN spans :
                            /\ spans[i].span_id = rel.child_span_id
                            /\ spans[i].parent_span_id = span_id),
     overflow |-> FALSE]
RECURSIVE CalculateDepth(_, _, _, _)
CalculateDepth(span_id, spans, depth, fuel) ==
    IF \A i \in DOMAIN spans : spans[i].span_id # span_id
    THEN [rels |-> <<>>, overflow |-> FALSE]
    ELSE IF fuel = 0 THEN [rels |-> <<>>, overflow |-> TRUE]
    ELSE LET RECURSIVE Children(_)
             Children(i) ==
                 IF i > Len(spans) THEN [rels |-> <<>>, overflow |-> FALSE]
                 ELSE LET rest == Children(i + 1)
                      IN IF spans[i].parent_span_id = span_id
                         THEN LET sub == CalculateDepth(spans[i].span_id, spans,
                                                        depth + 1, fuel - 1)
                              IN [rels |-> <<[parent_span_id |-> span_id,
                                              child_span_id |-> spans[i].span_id,
                                              depth |-> depth + 1]>>
                                           \o sub.rels \o rest.rels,
                                  overflow |-> sub.overflow \/ rest.overflow]
                         ELSE rest
         IN Children(1)


\* ------------------------------------------------------------- the store
\* A storage write fails when the environment makes it fail; it can do so
\* only in a run with storage_faults.
Faults == IF faults_left > 0 THEN BOOLEAN ELSE {FALSE}
Spend(fault) == faults_left' = IF fault THEN faults_left - 1 ELSE faults_left

\* The CapturedRequest object dispatch holds, as the row save() writes.
RowOf(l) == [request_id |-> l.request_id, status_code |-> l.status_code,
             duration_set |-> l.duration_set, response_body |-> l.response_body]

\* Model.save(): INSERT for an object not yet saved, UPDATE afterwards.
\* request_id is unique: inserting a second row with the same value fails.
SaveRequestRejected(tbl, l) ==
    ~l.saved_in_db /\ \E row \in tbl : row.request_id = l.request_id

SaveRequestDeferred(tbl, l) == tbl
SaveRequest(tbl, l) ==
    IF l.saved_in_db
    THEN {IF row.request_id = l.request_id THEN RowOf(l) ELSE row : row \in tbl}
    ELSE tbl \cup {RowOf(l)}

\* CapturedQuery / CapturedException: request is a nullable foreign key to
\* CapturedRequest.request_id; a row naming a missing request is rejected.
ForeignKeyRejected(tbl, request_id) ==
    request_id # None /\ \A row \in tbl : row.request_id # request_id

\* Trace.trace_id and Span.span_id are primary keys.
TraceRejected(tbl, summary) ==
    summary.empty \/ \E row \in tbl : row.trace_id = summary.trace_id

SpanRejected(tbl, span) == \E row \in tbl : row.span_id = span.span_id

\* ------------------------------------------------------------ middleware
\* RadarMiddleware._should_skip: some excluded path is a prefix of the path.
ShouldSkipExact(path) == path \in exclude_paths
ShouldSkip(path) ==
    \E p \in exclude_paths :
        Len(p) <= Len(path) /\ SubSeq(path, 1, Len(p)) = p

\* uuid.uuid4() in a task of request r that drew k values before: a fresh value.
Uuid4Repeating(r, k) == Uuid(1, 1)
Uuid4(r, k) == Uuid(r, k + 1)

NoException == [kind |-> "none", by |-> 0]
NoOutcome == [kind |-> "none"]
NoSummary == [empty |-> TRUE]
NoSpan == [span_id |-> None]
NoCache == [request_id |-> None, exception |-> NoException]

InitLoc ==
    [request_id |-> None, path |-> <<>>, traced |-> FALSE, root_span_id |-> None,
     saved_in_db |-> FALSE, status_code |-> "none", duration_set |-> FALSE,
     response_body |-> 0, exception_occurred |-> FALSE, exception |-> NoException,
     exception_data |-> NoCache, summary |-> NoSummary, span_data |-> NoSpan,
     it |-> 0, it_len |-> 0, relations |-> <<>>, outcome |-> NoOutcome,
     stream |-> "none", sent |-> <<>>, delivered |-> <<>>, capturing |-> TRUE,
     response_text |-> 0, cancelled |-> FALSE]

NoQuery == [phase |-> "idle", request_id |-> None, span_id |-> None, status |-> "ok"]
InitApp == [st |-> "none", nq |-> 0, late |-> FALSE, q |-> NoQuery,
            exception |-> NoException]

\* What dispatch hands to its caller: `raise` at the end of the except block
\* re-raises the handler's exception, a CancelledError that passed the try
\* statement goes on after the finally clause, otherwise `return response`.
DispatchOutcomeSwallowing(l) == [kind |-> "return", status |-> l.status_code]
DispatchOutcome(l) ==
    IF l.exception_occurred
    THEN [kind |-> "raise", exception |-> l.exception]
    ELSE IF l.cancelled
    THEN [kind |-> "raise", exception |-> [kind |-> "CancelledError", by |-> 0]]
    ELSE [kind |-> "return", status |-> l.status_code]

\* Whether a failed storage write escapes the try/except around it.
\* site: "initial_save" | "final" (the try block of the finally clause).
PersistenceErrorEscapesAtFinal(site, failed) == failed /\ site = "final"
PersistenceErrorEscapes(site, failed) == FALSE

\* RadarMiddleware._capture_exception
CaptureException(request_id, exception) ==
    [request_id |-> request_id, exception |-> exception]

\* The variant that hands the cached entry to whichever request asks.
GetExceptionDataForAnyRequest(cache, request_id) ==
    IF cache.request_id # None THEN [cache EXCEPT !.request_id = request_id] ELSE NoCache

\* RadarMiddleware._get_exception_data
GetExceptionData(cache, request_id) ==
    IF cache.request_id # None /\ cache.request_id = request_id THEN cache ELSE NoCache

\* The end of the finally clause: request_context.set(None), then the raise or
\* the return.
Complete(r, l) ==
    /\ loc' = [loc EXCEPT ![r] =
                 [l EXCEPT !.outcome = DispatchOutcome(l),
                           !.stream = IF DispatchOutcome(l).kind = "return"
                                      THEN "next" ELSE "none"]]
    /\ pc' = [pc EXCEPT ![r] = "done"]
    /\ request_context' = ContextSet(request_context, DispatchTask(r), None)

\* A storage error that no try/except catches ends dispatch with that error.
Escape(r, l) ==
    /\ loc' = [loc EXCEPT ![r] = [l EXCEPT !.outcome = [kind |-> "raise",
                                      exception |-> [kind |-> "StorageError", by |-> r]]]]
    /\ pc' = [pc EXCEPT ![r] = "done"]
    /\ UNCHANGED request_context

Continue(r, l, next) ==
    /\ loc' = [loc EXCEPT ![r] = l]
    /\ pc' = [pc EXCEPT ![r] = next]
    /\ UNCHANGED request_context

\* `if trace_ctx and self.tracing_manager: await save_trace_context(trace_ctx)`:
\* get_trace_summary() is evaluated when Trace.create is called.
EnterSaveTrace(r, l) ==
    IF l.traced
    THEN Continue(r, [l EXCEPT !.summary = GetTraceSummary(trace_ctxs[r])], "trace_create")
    ELSE Complete(r, l)

\* A storage failure inside the finally clause's try block.
FinalFailure(r, l) ==
    IF PersistenceErrorEscapes("final", TRUE) THEN Escape(r, l) ELSE Complete(r, l)

\* call_next(request): the application runs in a task of its own, started
\* with a copy of dispatch's context.
StartApp(r, rc, tcv) ==
    /\ app' = [app EXCEPT ![r] = [InitApp EXCEPT !.st = "running"]]
    /\ request_context' = ContextCopy(rc, DispatchTask(r), AppTask(r))
    /\ trace_context' = ContextCopy(tcv, DispatchTask(r), AppTask(r))

\* dispatch, from its entry to `await captured_request.save()` (or, for an
\* excluded path, to `await call_next(request)`).
Dispatch(r, input) ==
    /\ pc[r] = "new"
    /\ IF ShouldSkip(input.path)
       THEN /\ StartApp(r, request_context, trace_context)
            /\ pc' = [pc EXCEPT ![r] = "skip_await"]
            /\ loc' = [loc EXCEPT ![r].path = input.path]
            /\ UNCHANGED <<uuid_next, trace_ctxs>>
       ELSE LET request_id == Uuid4(r, uuid_next[r])
                trace_id == IF input.x_trace_id # None THEN input.x_trace_id
                            ELSE Uuid4(r, uuid_next[r] + 1)
                drawn == IF input.x_trace_id # None THEN 1 ELSE 2
                span_id == Uuid4(r, uuid_next[r] + drawn)
                tc == SetCurrentSpan(
                          CreateSpan(NewTraceContext(trace_id), span_id,
                                     input.x_parent_span_id, "server", r),
                          span_id)
            IN /\ request_context' = ContextSet(request_context, DispatchTask(r), request_id)
               /\ IF enable_tracing
                  THEN /\ trace_context' = ContextSet(trace_context, DispatchTask(r), Ref(r))
                       /\ trace_ctxs' = [trace_ctxs EXCEPT ![r] = tc]
                       /\ uuid_next' = [uuid_next EXCEPT ![r] = @ + drawn + 1]
                  ELSE /\ UNCHANGED <<trace_context, trace_ctxs>>
                       /\ uuid_next' = [uuid_next EXCEPT ![r] = @ + 1]
               /\ loc' = [loc EXCEPT ![r] =
                            [@ EXCEPT !.request_id = request_id, !.path = input.path,
                                      !.traced = enable_tracing,
                                      !.root_span_id = IF enable_tracing THEN span_id ELSE None]]
               /\ pc' = [pc EXCEPT ![r] = "initial_save"]
               /\ UNCHANGED app
    /\ UNCHANGED <<enable_tracing, storage_faults, faults_left, exception_cache, dbVars, hookVars>>

\* `await captured_request.save()` before the handler, then call_next.
InitialSave(r, fault) ==
    /\ Spend(fault)
    /\ pc[r] = "initial_save"
    /\ LET failed == fault \/ SaveRequestRejected(radar_requests, loc[r])
       IN IF failed
          THEN /\ UNCHANGED radar_requests
               /\ IF PersistenceErrorEscapes("initial_save", failed)
                  THEN /\ Escape(r, loc[r])
                       /\ UNCHANGED <<app, trace_context>>
                  ELSE /\ StartApp(r, request_context, trace_context)
                       /\ pc' = [pc EXCEPT ![r] = "await_app"]
                       /\ UNCHANGED loc
          ELSE /\ radar_requests' = SaveRequest(radar_requests, loc[r])
               /\ StartApp(r, request_context, trace_context)
               /\ pc' = [pc EXCEPT ![r] = "await_app"]
               /\ loc' = [loc EXCEPT ![r].saved_in_db = TRUE]
    /\ UNCHANGED <<enable_tracing, storage_faults, uuid_next, trace_ctxs, exception_cache,
                   radar_queries, radar_exceptions, radar_traces, radar_spans,
                   radar_span_relations, hookVars>>

\* call_next returned a response: lines 120-146, then the finally clause up to
\* its `await captured_request.save()`.
HandlerReturned(r) ==
    /\ pc[r] = "await_app"
    /\ app[r].st = "responded"
    /\ Continue(r, [loc[r] EXCEPT !.status_code = "200", !.duration_set = TRUE], "final_save")
    /\ trace_ctxs' = IF loc[r].traced
                     THEN [trace_ctxs EXCEPT ![r] = FinishSpan(@, loc[r].root_span_id, "ok")]
                     ELSE trace_ctxs
    /\ UNCHANGED <<enable_tracing, storage_faults, faults_left, uuid_next, trace_context, app,
                   exception_cache, dbVars, hookVars>>

\* call_next raised: the except block, then the finally clause up to its
\* `await captured_request.save()`.
HandlerRaised(r) ==
    /\ pc[r] = "await_app"
    /\ app[r].st = "raised"
    /\ exception_cache' = CaptureException(loc[r].request_id, app[r].exception)
    /\ Continue(r, [loc[r] EXCEPT !.exception_occurred = TRUE,
                                  !.exception = app[r].exception,
                                  !.duration_set = TRUE], "final_save")
    /\ trace_ctxs' = IF loc[r].traced
                     THEN [trace_ctxs EXCEPT ![r] =
                             FinishSpan(AddSpanLog(@, loc[r].root_span_id, "error"),
                                        loc[r].root_span_id, "error")]
                     ELSE trace_ctxs
    /\ UNCHANGED <<enable_tracing, storage_faults, faults_left, uuid_next, trace_context, app,
                   dbVars, hookVars>>

\* `await captured_request.save()` of the finally clause, then on to the next
\* await of the try block.
FinalSave(r, fault) ==
    /\ Spend(fault)
    /\ pc[r] = "final_save"
    /\ LET failed == fault \/ SaveRequestRejected(radar_requests, loc[r])
           l == [loc[r] EXCEPT !.saved_in_db = TRUE]
           data == GetExceptionData(exception_cache, l.request_id)
       IN IF failed
          THEN /\ UNCHANGED radar_requests
               /\ FinalFailure(r, loc[r])
          ELSE /\ radar_requests' = SaveRequest(radar_requests, loc[r])
               /\ IF l.exception_occurred /\ data # NoCache
                  THEN Continue(r, [l EXCEPT !.exception_data = data], "exc_create")
                  ELSE EnterSaveTrace(r, l)
    /\ UNCHANGED <<enable_tracing, storage_faults, uuid_next, trace_context, app,
                   trace_ctxs, exception_cache, radar_queries, radar_exceptions,
                   radar_traces, radar_spans, radar_span_relations, hookVars>>

\* `await CapturedException.create(**exception_data)`
ExceptionCreate(r, fault) ==
    /\ Spend(fault)
    /\ pc[r] = "exc_create"
    /\ LET data == loc[r].exception_data
           failed == fault \/ ForeignKeyRejected(radar_requests, data.request_id)
       IN IF failed
          THEN /\ UNCHANGED radar_exceptions
               /\ FinalFailure(r, loc[r])
          ELSE /\ radar_exceptions' = radar_exceptions \cup
                      {[request_id |-> data.request_id, exception |-> data.exception]}
               /\ EnterSaveTrace(r, loc[r])
    /\ UNCHANGED <<enable_tracing, storage_faults, uuid_next, trace_context, app,
                   trace_ctxs, exception_cache, radar_requests, radar_queries,
                   radar_traces, radar_spans, radar_span_relations, hookVars>>

\* The Span row Span.create(**span_data) writes: the span as it is when the
\* call is made.
SpanRow(tc, span) ==
    [span_id |-> span.span_id, trace_id |-> tc.trace_id,
     parent_span_id |-> span.parent_span_id, span_kind |-> span.span_kind,
     status |-> span.status, ended |-> span.ended]

\* save_trace_context after its Span loop: _save_span_relations up to its
\* first `await SpanRelation.create`.
EnterRelations(r, l) ==
    LET tc == trace_ctxs[r]
        res == CalculateDepth(tc.root_span_id, tc.spans, 0, Len(tc.spans) + 1)
    IN IF tc.root_span_id = None THEN Complete(r, l)
       ELSE IF res.overflow THEN FinalFailure(r, l)
       ELSE IF res.rels = <<>> THEN Complete(r, l)
       ELSE Continue(r, [l EXCEPT !.relations = res.rels], "relations")

\* `for span_data in trace_ctx.spans.values()`: the next element, with the
\* RuntimeError of a dict that changed size during the iteration.
NextSpan(r, l) ==
    LET tc == trace_ctxs[r]
    IN IF Len(tc.spans) # l.it_len THEN FinalFailure(r, l)
       ELSE IF l.it + 1 > l.it_len THEN EnterRelations(r, l)
       ELSE Continue(r, [l EXCEPT !.it = l.it + 1,
                                  !.span_data = SpanRow(tc, tc.spans[l.it + 1])],
                     "span_create")

\* `await Trace.create(**trace_summary)`, then the first Span.create call.
TraceCreate(r, fault) ==
    /\ Spend(fault)
    /\ pc[r] = "trace_create"
    /\ LET summary == loc[r].summary
           failed == fault \/ TraceRejected(radar_traces, summary)
       IN IF failed
          THEN /\ UNCHANGED radar_traces
               /\ FinalFailure(r, loc[r])
          ELSE /\ radar_traces' = radar_traces \cup
                      {[trace_id |-> summary.trace_id, span_count |-> summary.span_count,
                        status |-> summary.status]}
               /\ NextSpan(r, [loc[r] EXCEPT !.it = 0, !.it_len = Len(trace_ctxs[r].spans)])
    /\ UNCHANGED <<enable_tracing, storage_faults, uuid_next, trace_context, app,
                   trace_ctxs, exception_cache, radar_requests, radar_queries,
                   radar_exceptions, radar_spans, radar_span_relations, hookVars>>

\* `await Span.create(**span_data)`, then the next Span.create call or the
\* first SpanRelation.create call.
SpanCreate(r, fault) ==
    /\ Spend(fault)
    /\ pc[r] = "span_create"
    /\ LET failed == fault \/ SpanRejected(radar_spans, loc[r].span_data)
       IN IF failed
          THEN /\ UNCHANGED radar_spans
               /\ FinalFailure(r, loc[r])
          ELSE /\ radar_spans' = radar_spans \cup {loc[r].span_data}
               /\ NextSpan(r, loc[r])
    /\ UNCHANGED <<enable_tracing, storage_faults, uuid_next, trace_context, app,
                   trace_ctxs, exception_cache, radar_requests, radar_queries,
                   radar_exceptions, radar_traces, radar_span_relations, hookVars>>

\* `await SpanRelation.create(...)` for the next computed relation.
RelationCreate(r, fault) ==
    /\ Spend(fault)
    /\ pc[r] = "relations"
    /\ LET rel == Head(loc[r].relations)
           l == [loc[r] EXCEPT !.relations = Tail(@)]
       IN IF fault
          THEN /\ UNCHANGED radar_span_relations
               /\ FinalFailure(r, loc[r])
          ELSE /\ radar_span_relations' = radar_span_relations \cup
                      {[trace_id |-> trace_ctxs[r].trace_id,
                        parent_span_id |-> rel.parent_span_id,
                        child_span_id |-> rel.child_span_id, depth |-> rel.depth]}
               /\ IF l.relations = <<>> THEN Complete(r, l)
                  ELSE Continue(r, l, "relations")
    /\ UNCHANGED <<enable_tracing, storage_faults, uuid_next, trace_context, app,
                   trace_ctxs, exception_cache, radar_requests, radar_queries,
                   radar_exceptions, radar_traces, radar_spans, hookVars>>

\* An excluded path: `return await call_next(request)`.
SkipReturn(r) ==
    /\ pc[r] = "skip_await"
    /\ app[r].st \in {"responded", "raised"}
    /\ loc' = [loc EXCEPT ![r].outcome =
                 IF app[r].st = "raised"
                 THEN [kind |-> "raise", exception |-> app[r].exception]
                 ELSE [kind |-> "return", status |-> "200"]]
    /\ pc' = [pc EXCEPT ![r] = "done"]
    /\ UNCHANGED <<enable_tracing, storage_faults, faults_left, uuid_next, request_context,
                   trace_context, app, trace_ctxs, exception_cache, dbVars, hookVars>>

\* ------------------------------------------------- the application's task
\* The handler answers: the response's start reaches call_next.  The task
\* lives on (a streamed body, a dependency's exit code, background work) and
\* may still query; `late` marks a task that did.
Respond(r) ==
    /\ app[r].st = "running"
    /\ app[r].q.phase = "idle"
    /\ app' = [app EXCEPT ![r].st = "responded"]
    /\ UNCHANGED <<mwVarsButApp, dbVars, hookVars>>

\* The handler raises.
Raise(r) ==
    /\ app[r].st = "running"
    /\ app[r].q.phase = "idle"
    /\ app' = [app EXCEPT ![r].st = "raised",
                          ![r].exception = [kind |-> "ValueError", by |-> r]]
    /\ UNCHANGED <<mwVarsButApp, dbVars, hookVars>>

\* `duration_ms = round((time.time() - start_time) * 1000, 2)`: the values the
\* wall clock can give, one of them negative (the clock was set back).
Durations == (-1)..MaxDuration
Thresholds == 0..MaxThreshold

\* QueryCapture.after_query: error if the operation raised, else slow if the
\* duration reached the threshold, else ok.
QueryStatusStrict(raised, duration_ms, threshold) ==
    IF raised THEN "error" ELSE IF duration_ms > threshold THEN "slow" ELSE "ok"
QueryStatus(raised, duration_ms, threshold) ==
    IF raised THEN "error" ELSE IF duration_ms >= threshold THEN "slow" ELSE "ok"

\* A host statement goes through the wrapped entry point: QueryCapture.before_query
\* runs in the application's task, up to the await of the real operation.
QueryBefore(r) ==
    /\ app[r].st \in {"running", "responded"}
    /\ app[r].q.phase = "idle"
    /\ app[r].nq < MaxQueries
    /\ LET request_id == ContextGet(request_context, AppTask(r))
           ref == ContextGet(trace_context, AppTask(r))
           span_id == Uuid4(r, uuid_next[r])
       IN IF ref # None
          THEN /\ trace_ctxs' = [trace_ctxs EXCEPT ![Deref(ref)] =
                                    CreateSpan(@, span_id, None, "client", r)]
               /\ uuid_next' = [uuid_next EXCEPT ![r] = @ + 1]
               /\ app' = [app EXCEPT ![r].nq = @ + 1,
                                     ![r].late = (app[r].st = "responded"),
                                     ![r].q = [phase |-> "op", request_id |-> request_id,
                                               span_id |-> span_id, status |-> "ok"]]
          ELSE /\ UNCHANGED <<trace_ctxs, uuid_next>>
               /\ app' = [app EXCEPT ![r].nq = @ + 1,
                                     ![r].late = (app[r].st = "responded"),
                                     ![r].q = [phase |-> "op", request_id |-> request_id,
                                               span_id |-> None, status |-> "ok"]]
    /\ UNCHANGED <<enable_tracing, storage_faults, faults_left, request_context, trace_context, pc, loc,
                   exception_cache, dbVars, hookVars>>

\* The real operation ends (returns or raises); QueryCapture.after_query runs
\* up to its `await CapturedQuery.create`.
QueryAfter(r, raised, duration_ms) ==
    /\ app[r].q.phase = "op"
    /\ LET ref == ContextGet(trace_context, AppTask(r))
           status == QueryStatus(raised, duration_ms, slow_query_threshold)
       IN /\ trace_ctxs' = IF ref # None /\ app[r].q.span_id # None
                           THEN [trace_ctxs EXCEPT ![Deref(ref)] =
                                    FinishSpan(@, app[r].q.span_id, status)]
                           ELSE trace_ctxs
          /\ app' = [app EXCEPT ![r].q.phase = "write", ![r].q.status = status]
    /\ UNCHANGED <<enable_tracing, storage_faults, faults_left, uuid_next, request_context,
                   trace_context, pc, loc, exception_cache, dbVars, hookVars>>

\* `await CapturedQuery.create(request_id=request_id, ...)`; a failure is
\* swallowed.  `call` and `by` tell which call of which request wrote the row.
QueryWrite(r, fault) ==
    /\ Spend(fault)
    /\ app[r].q.phase = "write"
    /\ LET failed == fault \/ ForeignKeyRejected(radar_requests, app[r].q.request_id)
       IN radar_queries' = IF failed THEN radar_queries
                           ELSE radar_queries \cup
                                  {[request_id |-> app[r].q.request_id,
                                    call |-> app[r].nq, by |-> r, listener |-> 1]}
    /\ app' = [app EXCEPT ![r].q = NoQuery]
    /\ UNCHANGED <<enable_tracing, storage_faults, uuid_next, request_context,
                   trace_context, pc, loc, trace_ctxs, exception_cache, radar_requests,
                   radar_exceptions, radar_traces, radar_spans, radar_span_relations,
                   hookVars>>

\* ------------------------------------------------- the response's body
\* The StreamingResponse dispatch returned is sent: capture_response() takes
\* the next chunk of the handler's body_iterator and yields it to the caller;
\* resumed, it accumulates the chunk while `capturing`, up to its
\* `await captured_request.save()`.
YieldChunkWhileCapturing(delivered, chunk, capturing) ==
    IF capturing THEN Append(delivered, chunk) ELSE delivered
\* `yield chunk` comes first in the loop's body, whatever `capturing` is.
YieldChunk(delivered, chunk, capturing) == Append(delivered, chunk)
StreamChunk(r) ==
    /\ pc[r] = "done"
    /\ loc[r].stream = "next"
    /\ Len(loc[r].sent) < MaxChunks
    /\ LET chunk == [of |-> r, n |-> Len(loc[r].sent) + 1]
           l == [loc[r] EXCEPT !.sent = Append(@, chunk),
                               !.delivered = YieldChunk(@, chunk, loc[r].capturing)]
       IN loc' = [loc EXCEPT ![r] =
                    IF l.capturing
                    THEN [l EXCEPT !.response_text = @ + 1, !.response_body = l.response_text + 1,
                                   !.stream = "chunk_save"]
                    ELSE l]
    /\ UNCHANGED <<enable_tracing, storage_faults, faults_left, uuid_next, request_context,
                   trace_context, pc, app, trace_ctxs, exception_cache, dbVars, hookVars>>

\* `capturing = len(response_body) < self.max_body_size`
StillCapturingWhateverLength(length, max_body_size) == TRUE
StillCapturing(length, max_body_size) == length < max_body_size

\* `await captured_request.save()` of capture_response: a failure ends the
\* capturing, and so does reaching max_body_size.
ChunkSave(r, fault) ==
    /\ Spend(fault)
    /\ pc[r] = "done"
    /\ loc[r].stream = "chunk_save"
    /\ LET failed == fault \/ SaveRequestRejected(radar_requests, loc[r])
       IN IF failed
          THEN /\ UNCHANGED radar_requests
               /\ loc' = [loc EXCEPT ![r].capturing = FALSE, ![r].stream = "next"]
          ELSE /\ radar_requests' = SaveRequest(radar_requests, loc[r])
               /\ loc' = [loc EXCEPT ![r].saved_in_db = TRUE,
                                     ![r].capturing = StillCapturing(loc[r].response_text,
                                                                     MaxBodySize),
                                     ![r].stream = "next"]
    /\ UNCHANGED <<enable_tracing, storage_faults, uuid_next, request_context,
                   trace_context, pc, app, trace_ctxs, exception_cache, radar_queries,
                   radar_exceptions, radar_traces, radar_spans, radar_span_relations,
                   hookVars>>

\* The handler's body_iterator is exhausted: the response is complete.
StreamEnd(r) ==
    /\ pc[r] = "done"
    /\ loc[r].stream = "next"
    /\ loc' = [loc EXCEPT ![r].stream = "closed"]
    /\ UNCHANGED <<enable_tracing, storage_faults, faults_left, uuid_next, request_context,
                   trace_context, pc, app, trace_ctxs, exception_cache, dbVars, hookVars>>

\* No Radar operation is followed, and no time passes.
NoApi == [op |-> "none"]
InitSvcIdle ==
    /\ now = 0
    /\ radar_background_tasks = {}
    /\ api = NoApi

\* ------------------------------------------------------------------ Spec
\* Radar.__init__ has constructed its QueryCapture, which registered itself;
\* no call through the wrapped entry points is followed step by step.
InitHookIdle ==
    /\ listeners = <<"QueryCapture">>
    /\ calls = <<>>
    /\ hooklog = <<>>
    /\ slow_query_threshold = MaxThreshold
    /\ InitSvcIdle

InitMiddleware(faults) ==
    /\ enable_tracing \in BOOLEAN
    /\ storage_faults = faults
    /\ faults_left = IF storage_faults THEN MaxFaults ELSE 0
    /\ uuid_next = [r \in Reqs |-> 0]
    /\ request_context = [t \in Tasks |-> None]
    /\ trace_context = [t \in Tasks |-> None]
    /\ pc = [r \in Reqs |-> "new"]
    /\ loc = [r \in Reqs |-> InitLoc]
    /\ app = [r \in Reqs |-> InitApp]
    /\ trace_ctxs = [r \in Reqs |-> NoTraceContext]
    /\ exception_cache = NoCache
    /\ radar_requests = {}
    /\ radar_queries = {}
    /\ radar_exceptions = {}
    /\ radar_traces = {}
    /\ radar_spans = {}
    /\ radar_span_relations = {}
    /\ InitHookIdle

ServeStep(r) ==
        \/ \E input \in Inputs : Dispatch(r, input)
        \/ \E fault \in Faults : InitialSave(r, fault)
        \/ HandlerReturned(r)
        \/ HandlerRaised(r)
        \/ \E fault \in Faults : FinalSave(r, fault)
        \/ \E fault \in Faults : ExceptionCreate(r, fault)
        \/ \E fault \in Faults : TraceCreate(r, fault)
        \/ \E fault \in Faults : SpanCreate(r, fault)
        \/ \E fault \in Faults : RelationCreate(r, fault)
        \/ SkipReturn(r)
        \/ Respond(r)
        \/ Raise(r)
        \/ QueryBefore(r)
        \/ \E raised \in BOOLEAN, duration_ms \in Durations : QueryAfter(r, raised, duration_ms)
        \/ \E fault \in Faults : QueryWrite(r, fault)

\* Requests served concurrently by one middleware instance, the storage
\* accepting every write it can.
Init == InitMiddleware(FALSE)
Next == \E r \in Reqs : ServeStep(r)
Spec == Init /\ [][Next]_vars

\* The same, with storage writes that fail.
InitFaults == InitMiddleware(TRUE)
SpecFaults == InitFaults /\ [][Next]_vars

\* One request with failing storage writes, followed to the end of its
\* response's body.
NextStream ==
    \/ ServeStep(1)
    \/ StreamChunk(1)
    \/ \E fault \in Faults : ChunkSave(1, fault)
    \/ StreamEnd(1)
SpecStream == InitFaults /\ [][NextStream]_vars

\* ------------------------------------------------------- cancellation
\* The request is cancelled while dispatch awaits call_next and the handler
\* runs: CancelledError, which is no Exception, passes the except block, and
\* the finally clause runs up to its `await captured_request.save()`.
HandlerCancelled(r) ==
    /\ pc[r] = "await_app"
    /\ app[r].st = "running"
    /\ app[r].q.phase = "idle"
    /\ app' = [app EXCEPT ![r].st = "cancelled"]
    /\ Continue(r, [loc[r] EXCEPT !.cancelled = TRUE, !.duration_set = TRUE], "final_save")
    /\ trace_ctxs' = IF loc[r].traced
                     THEN [trace_ctxs EXCEPT ![r] = FinishSpan(@, loc[r].root_span_id, "ok")]
                     ELSE trace_ctxs
    /\ UNCHANGED <<enable_tracing, storage_faults, faults_left, uuid_next, trace_context,
                   exception_cache, dbVars, hookVars>>

\* An await of the finally clause, which is not shielded, raises CancelledError
\* again (the enclosing cancel scope stays cancelled, or the task is cancelled
\* once more): `except Exception: pass` does not catch it, and dispatch ends
\* without reaching request_context.set(None).
CancelledAgain(r) ==
    /\ pc[r] \in {"final_save", "exc_create", "trace_create", "span_create", "relations"}
    /\ loc[r].cancelled
    /\ loc' = [loc EXCEPT ![r].outcome = [kind |-> "raise",
                                          exception |-> [kind |-> "CancelledError", by |-> 0]]]
    /\ pc' = [pc EXCEPT ![r] = "done"]
    /\ UNCHANGED <<enable_tracing, storage_faults, faults_left, uuid_next, request_context,
                   trace_context, app, trace_ctxs, exception_cache, dbVars, hookVars>>

\* One request, which may be cancelled while its handler runs.
NextCancel ==
    \/ ServeStep(1)
    \/ HandlerCancelled(1)
    \/ CancelledAgain(1)
SpecCancel == Init /\ [][NextCancel]_vars

\* ------------------------------------- the wrapped execute entry points
\* new_execute_query, new_execute_script and new_execute_insert, for one
\* patched backend class; the three bodies differ in the operation they await.
Entries == {"execute_query", "execute_script", "execute_insert"}

\* What a statement is to QueryCapture.before_query: one that names a radar_
\* table, a CREATE/DROP/ALTER, or any other.
Statements == {"radar", "ddl", "dml"}

\* The listeners that get registered: a QueryCapture, a listener that works,
\* one whose before_query always raises and one whose after_query always raises.
ListenerKinds == {"QueryCapture", "plain", "raises_before", "raises_after"}

\* The value listener j's before_query returns for call c: QueryCapture
\* returns None for the statements it ignores and a fresh dict otherwise; any
\* other listener returns a value of its own.
BeforeReturnsAlways(kind, j, c, statement) == <<"ctx", j, c>>
BeforeReturns(kind, j, c, statement) ==
    IF kind = "QueryCapture" /\ statement \in {"radar", "ddl"}
    THEN None
    ELSE <<"ctx", j, c>>

\* Whether a listener's hook raises.
HookRaises(kind, hook) ==
    \/ kind = "raises_before" /\ hook = "before"
    \/ kind = "raises_after" /\ hook = "after"

\* `except Exception` around each listener hook: nothing a hook raises leaves
\* the loop.
ListenerErrorEscapesLoop(hook) == TRUE
ListenerErrorEscapes(hook) == FALSE

\* `listener.after_query(ctxs[i], ...)`: the context handed to the i-th listener.
AfterContextOfLast(ctxs, i) == ctxs[Len(ctxs)]
AfterContext(ctxs, i) == ctxs[i]

\* How a call that reached the end of its finally block leaves: `return
\* result`, or `raise e` for the exception the real operation raised.
CallOutcomeSuppressing(call) == [kind |-> "return", result |-> call.result]
CallOutcome(call) ==
    IF call.exc # NoException
    THEN [kind |-> "raise", exception |-> call.exc]
    ELSE [kind |-> "return", result |-> call.result]

NewCall(entry, statement, parent, by, registered) ==
    [entry |-> entry, statement |-> statement, parent |-> parent, by |-> by,
     registered |-> registered, pc |-> "before", i |-> 1, ctxs |-> <<>>, span_ids |-> <<>>,
     exc |-> NoException, result |-> None, outcome |-> NoOutcome]

HostCalls == {c \in DOMAIN calls : calls[c].parent = 0}

\* add_query_listener(listener)
AddQueryListener(kind) ==
    /\ Len(listeners) < MaxListeners
    /\ listeners' = Append(listeners, kind)
    /\ UNCHANGED <<mwVars, dbVars, calls, hooklog, slow_query_threshold, svcVars>>

\* The host (or the ORM on its behalf) calls a wrapped entry point: `ctxs = []`
\* and the loop over _listeners begins.
CallStart(entry, statement, max) ==
    /\ Cardinality(HostCalls) < max
    /\ calls' = Append(calls, NewCall(entry, statement, 0, 0, Len(listeners)))
    /\ hooklog' = Append(hooklog, <<>>)
    /\ UNCHANGED <<mwVars, dbVars, listeners, slow_query_threshold, svcVars>>

\* The task the host's calls run in.
CallTask == AppTask(1)

\* context["span_id"] of the context a QueryCapture's before_query returned
\* (span_ids[j] is what the j-th listener stored in its context).
SpanOf(call, ctx) ==
    IF ctx = None \/ ctx[2] > Len(call.span_ids) THEN None ELSE call.span_ids[ctx[2]]

\* One turn of the first loop: the next listener's before_query is called and
\* what it returned, or None if it raised, is appended to ctxs.  A QueryCapture
\* that returns a context creates a client span in the ambient Trace Context.
HookBefore(c) ==
    /\ calls[c].pc = "before"
    /\ calls[c].i <= Len(listeners)
    /\ LET j == calls[c].i
           kind == listeners[j]
           raised == HookRaises(kind, "before")
           ctx == IF raised THEN None ELSE BeforeReturns(kind, j, c, calls[c].statement)
           ref == ContextGet(trace_context, CallTask)
           traced == kind = "QueryCapture" /\ ctx # None /\ ref # None
           span_id == IF traced THEN Uuid4(Deref(ref), uuid_next[Deref(ref)]) ELSE None
           event == [hook |-> "before", listener |-> j, ctx |-> ctx, raised |-> raised,
                     exc |-> NoException]
       IN /\ hooklog' = [hooklog EXCEPT ![c] = Append(@, event)]
          /\ calls' = IF raised /\ ListenerErrorEscapes("before")
                      THEN [calls EXCEPT ![c].pc = "done",
                                         ![c].outcome = [kind |-> "raise",
                                                         exception |-> [kind |-> "ListenerError", by |-> j]]]
                      ELSE [calls EXCEPT ![c].ctxs = Append(@, ctx),
                                         ![c].span_ids = Append(@, span_id), ![c].i = j + 1]
          /\ IF traced
             THEN /\ trace_ctxs' = [trace_ctxs EXCEPT ![Deref(ref)] =
                                       CreateSpan(@, span_id, None, "client", 0)]
                  /\ uuid_next' = [uuid_next EXCEPT ![Deref(ref)] = @ + 1]
             ELSE UNCHANGED <<trace_ctxs, uuid_next>>
    /\ UNCHANGED <<enable_tracing, storage_faults, faults_left, request_context, trace_context,
                   pc, loc, app, exception_cache, dbVars, listeners, slow_query_threshold, svcVars>>

\* The first loop has gone through _listeners: the real operation is awaited.
OperationStart(c) ==
    /\ calls[c].pc = "before"
    /\ calls[c].i > Len(listeners)
    /\ calls' = [calls EXCEPT ![c].pc = "op"]
    /\ hooklog' = [hooklog EXCEPT ![c] = Append(@, [hook |-> "op", listener |-> 0, ctx |-> None,
                                                    raised |-> FALSE, exc |-> NoException])]
    /\ UNCHANGED <<mwVars, dbVars, listeners, slow_query_threshold, svcVars>>

\* The real operation returns its result or raises; the finally block begins
\* its loop over _listeners.
OperationEnd(c, raised) ==
    /\ calls[c].pc = "op"
    /\ calls' = [calls EXCEPT
                    ![c].pc = "after", ![c].i = 1,
                    ![c].result = IF raised THEN None ELSE <<"result", c>>,
                    ![c].exc = IF raised THEN [kind |-> "OperationalError", by |-> c]
                               ELSE NoException]
    /\ UNCHANGED <<mwVars, dbVars, listeners, hooklog, slow_query_threshold, svcVars>>

\* One turn of the loop of the finally block.  `ctxs[i]` raises IndexError for
\* a listener registered after the first loop ended, and the listener is passed
\* over.  QueryCapture.after_query with a context of its own reaches `await
\* CapturedQuery.create(...)`, an INSERT into radar_queries through
\* execute_insert of the same patched class.
HookAfter(c, duration_ms) ==
    /\ calls[c].pc = "after"
    /\ calls[c].i <= Len(listeners)
    /\ LET j == calls[c].i
           kind == listeners[j]
       IN IF j > Len(calls[c].ctxs)
          THEN /\ calls' = [calls EXCEPT ![c].i = j + 1]
               /\ UNCHANGED <<hooklog, trace_ctxs>>
          ELSE LET ctx == AfterContext(calls[c].ctxs, j)
                   raised == HookRaises(kind, "after")
                   event == [hook |-> "after", listener |-> j, ctx |-> ctx,
                             raised |-> raised, exc |-> calls[c].exc]
               IN IF raised /\ ListenerErrorEscapes("after")
                  THEN /\ hooklog' = [hooklog EXCEPT ![c] = Append(@, event)]
                       /\ calls' = [calls EXCEPT ![c].pc = "done",
                                                 ![c].outcome = [kind |-> "raise",
                                                                 exception |-> [kind |-> "ListenerError", by |-> j]]]
                       /\ UNCHANGED trace_ctxs
                  ELSE IF kind = "QueryCapture" /\ ctx # None
                  THEN LET ref == ContextGet(trace_context, CallTask)
                           span_id == SpanOf(calls[c], ctx)
                           status == QueryStatus(calls[c].exc # NoException, duration_ms,
                                                 slow_query_threshold)
                           measured == [hook |-> "after", listener |-> j, ctx |-> ctx,
                                        raised |-> raised, exc |-> calls[c].exc,
                                        duration_ms |-> duration_ms, span_id |-> span_id]
                       IN /\ trace_ctxs' = IF ref # None /\ span_id # None
                                           THEN [trace_ctxs EXCEPT ![Deref(ref)] =
                                                    FinishSpan(@, span_id, status)]
                                           ELSE trace_ctxs
                          /\ hooklog' = Append([hooklog EXCEPT ![c] = Append(@, measured)], <<>>)
                          /\ calls' = Append([calls EXCEPT ![c].pc = "create"],
                                             NewCall("execute_insert", "radar", c, j, Len(listeners)))
                  ELSE /\ hooklog' = [hooklog EXCEPT ![c] = Append(@, event)]
                       /\ calls' = [calls EXCEPT ![c].i = j + 1]
                       /\ UNCHANGED trace_ctxs
    /\ UNCHANGED <<enable_tracing, storage_faults, faults_left, uuid_next, request_context,
                   trace_context, pc, loc, app, exception_cache, dbVars, listeners,
                   slow_query_threshold, svcVars>>

\* The loop of the finally block has gone through _listeners: the call leaves
\* with the operation's result or exception.  When the call is the INSERT of a
\* QueryCapture, CapturedQuery.create returns in after_query, or raises and is
\* swallowed there, and the loop that called after_query moves on.
CallEnd(c) ==
    /\ calls[c].pc = "after"
    /\ calls[c].i > Len(listeners)
    /\ LET outcome == CallOutcome(calls[c])
           parent == calls[c].parent
           ended == [calls EXCEPT ![c].pc = "done", ![c].outcome = outcome]
       IN IF parent = 0
          THEN /\ calls' = ended
               /\ UNCHANGED radar_queries
          ELSE /\ calls' = [ended EXCEPT ![parent].pc = "after", ![parent].i = @ + 1]
               /\ radar_queries' =
                     IF outcome.kind = "return"
                     THEN radar_queries \cup
                            {[request_id |-> None, call |-> parent, by |-> 0,
                              listener |-> calls[c].by]}
                     ELSE radar_queries
    /\ UNCHANGED <<mwVars, radar_requests, radar_exceptions, radar_traces, radar_spans,
                   radar_span_relations, listeners, hooklog, slow_query_threshold, svcVars>>

\* No request is served.
InitNoRequest ==
    /\ enable_tracing = FALSE
    /\ storage_faults = FALSE
    /\ faults_left = 0
    /\ uuid_next = [r \in Reqs |-> 0]
    /\ request_context = [t \in Tasks |-> None]
    /\ trace_context = [t \in Tasks |-> None]
    /\ pc = [r \in Reqs |-> "new"]
    /\ loc = [r \in Reqs |-> InitLoc]
    /\ app = [r \in Reqs |-> InitApp]
    /\ trace_ctxs = [r \in Reqs |-> NoTraceContext]
    /\ exception_cache = NoCache
    /\ radar_requests = {}
    /\ radar_queries = {}
    /\ radar_exceptions = {}
    /\ radar_traces = {}
    /\ radar_spans = {}
    /\ radar_span_relations = {}
    /\ calls = <<>>
    /\ hooklog = <<>>
    /\ slow_query_threshold = MaxThreshold
    /\ InitSvcIdle

\* Listeners are registered while a host call goes through a wrapped entry
\* point.
InitHook ==
    /\ InitNoRequest
    /\ listeners = <<>>
NextHook ==
    \/ \E kind \in ListenerKinds : AddQueryListener(kind)
    \/ \E entry \in Entries, statement \in Statements : CallStart(entry, statement, MaxCallsRegistering)
    \/ \E c \in DOMAIN calls : HookBefore(c)
    \/ \E c \in DOMAIN calls : OperationStart(c)
    \/ \E c \in DOMAIN calls, raised \in BOOLEAN : OperationEnd(c, raised)
    \/ \E c \in DOMAIN calls : HookAfter(c, 0)
    \/ \E c \in DOMAIN calls : CallEnd(c)
SpecHook == InitHook /\ [][NextHook]_vars

\* The listeners were registered at start-up; host calls go through the
\* wrapped entry points concurrently.
ListenerLists == UNION {[1..n -> ListenerKinds] : n \in 0..MaxListeners}
InitHookCalls ==
    /\ InitNoRequest
    /\ listeners \in ListenerLists
NextHookCalls ==
    \/ \E entry \in Entries, statement \in Statements : CallStart(entry, statement, MaxCalls)
    \/ \E c \in DOMAIN calls : HookBefore(c)
    \/ \E c \in DOMAIN calls : OperationStart(c)
    \/ \E c \in DOMAIN calls, raised \in BOOLEAN : OperationEnd(c, raised)
    \/ \E c \in DOMAIN calls : HookAfter(c, 0)
    \/ \E c \in DOMAIN calls : CallEnd(c)
SpecHookCalls == InitHookCalls /\ [][NextHookCalls]_vars

\* One host call made in a task that has an ambient Trace Context with its
\* root span; the listeners were registered at start-up, and the QueryCapture
\* among them have some slow_query_threshold.
InitHookTraced ==
    /\ enable_tracing = TRUE
    /\ storage_faults = FALSE
    /\ faults_left = 0
    /\ uuid_next = [r \in Reqs |-> IF r = 1 THEN 2 ELSE 0]
    /\ request_context = [t \in Tasks |-> None]
    /\ trace_context = [t \in Tasks |-> IF t = CallTask THEN Ref(1) ELSE None]
    /\ pc = [r \in Reqs |-> "new"]
    /\ loc = [r \in Reqs |-> InitLoc]
    /\ app = [r \in Reqs |-> InitApp]
    /\ trace_ctxs = [r \in Reqs |->
                        IF r = 1
                        THEN SetCurrentSpan(CreateSpan(NewTraceContext(Uuid4(1, 0)), Uuid4(1, 1),
                                                       None, "server", 0),
                                            Uuid4(1, 1))
                        ELSE NoTraceContext]
    /\ exception_cache = NoCache
    /\ radar_requests = {}
    /\ radar_queries = {}
    /\ radar_exceptions = {}
    /\ radar_traces = {}
    /\ radar_spans = {}
    /\ radar_span_relations = {}
    /\ listeners \in ListenerLists
    /\ calls = <<>>
    /\ hooklog = <<>>
    /\ slow_query_threshold \in Thresholds
    /\ InitSvcIdle
NextHookTraced ==
    \/ \E entry \in Entries, statement \in Statements : CallStart(entry, statement, MaxCallsRegistering)
    \/ \E c \in DOMAIN calls : HookBefore(c)
    \/ \E c \in DOMAIN calls : OperationStart(c)
    \/ \E c \in DOMAIN calls, raised \in BOOLEAN : OperationEnd(c, raised)
    \/ \E c \in DOMAIN calls, duration_ms \in Durations : HookAfter(c, duration_ms)
    \/ \E c \in DOMAIN calls : CallEnd(c)
SpecHookTraced == InitHookTraced /\ [][NextHookTraced]_vars


\* --------------------------------------- a TraceContext used by a host
\* A host builds a trace through the TraceContext API and hands it to
\* TracingManager.save_trace_context.  The ids a host passes are ids of spans
\* of the trace, or an id that names no span of it.
UnknownSpanId == <<"hdr", "P">>
SpanArgs(tc) == SpanIds(tc) \cup {UnknownSpanId}

RECURSIVE TotalFinishes(_)
TotalFinishes(spans) ==
    IF spans = <<>> THEN 0 ELSE Head(spans).finishes + TotalFinishes(Tail(spans))

RECURSIVE TotalLogs(_)
TotalLogs(spans) ==
    IF spans = <<>> THEN 0 ELSE Len(Head(spans).logs) + TotalLogs(Tail(spans))

\* trace_ctx.create_span(operation_name, parent_span_id=parent)
ApiCreateSpan(parent) ==
    /\ pc[1] = "api"
    /\ Len(trace_ctxs[1].spans) < MaxSpans
    /\ trace_ctxs' = [trace_ctxs EXCEPT ![1] =
                         CreateSpan(@, Uuid4(1, uuid_next[1]), parent, "internal", 1)]
    /\ uuid_next' = [uuid_next EXCEPT ![1] = @ + 1]
    /\ UNCHANGED <<enable_tracing, storage_faults, faults_left, request_context, trace_context,
                   pc, loc, app, exception_cache, dbVars, hookVars>>

\* trace_ctx.set_current_span(span_id)
ApiSetCurrentSpan(span_id) ==
    /\ pc[1] = "api"
    /\ trace_ctxs' = [trace_ctxs EXCEPT ![1] = SetCurrentSpan(@, span_id)]
    /\ UNCHANGED <<enable_tracing, storage_faults, faults_left, uuid_next, request_context,
                   trace_context, pc, loc, app, exception_cache, dbVars, hookVars>>

\* trace_ctx.finish_span(span_id, status=status)
ApiFinishSpan(span_id, status) ==
    /\ pc[1] = "api"
    /\ TotalFinishes(trace_ctxs[1].spans) < MaxFinishes
    /\ trace_ctxs' = [trace_ctxs EXCEPT ![1] = FinishSpan(@, span_id, status)]
    /\ UNCHANGED <<enable_tracing, storage_faults, faults_left, uuid_next, request_context,
                   trace_context, pc, loc, app, exception_cache, dbVars, hookVars>>

\* trace_ctx.add_span_log(span_id, message, level=level)
ApiAddSpanLog(span_id, level) ==
    /\ pc[1] = "api"
    /\ TotalLogs(trace_ctxs[1].spans) < MaxLogs
    /\ trace_ctxs' = [trace_ctxs EXCEPT ![1] = AddSpanLog(@, span_id, level)]
    /\ UNCHANGED <<enable_tracing, storage_faults, faults_left, uuid_next, request_context,
                   trace_context, pc, loc, app, exception_cache, dbVars, hookVars>>

\* await tracing_manager.save_trace_context(trace_ctx): up to Trace.create.
ApiSaveTraceContext ==
    /\ pc[1] = "api"
    /\ Continue(1, [loc[1] EXCEPT !.summary = GetTraceSummary(trace_ctxs[1])], "trace_create")
    /\ UNCHANGED <<enable_tracing, storage_faults, faults_left, uuid_next, trace_context,
                   app, trace_ctxs, exception_cache, dbVars, hookVars>>

InitTrace ==
    /\ enable_tracing = TRUE
    /\ storage_faults = FALSE
    /\ faults_left = 0
    /\ uuid_next = [r \in Reqs |-> IF r = 1 THEN 1 ELSE 0]
    /\ request_context = [t \in Tasks |-> None]
    /\ trace_context = [t \in Tasks |-> None]
    /\ pc = [r \in Reqs |-> IF r = 1 THEN "api" ELSE "new"]
    /\ loc = [r \in Reqs |-> IF r = 1 THEN [InitLoc EXCEPT !.traced = TRUE] ELSE InitLoc]
    /\ app = [r \in Reqs |-> InitApp]
    /\ trace_ctxs = [r \in Reqs |-> IF r = 1 THEN NewTraceContext(Uuid4(1, 0))
                                    ELSE NoTraceContext]
    /\ exception_cache = NoCache
    /\ radar_requests = {}
    /\ radar_queries = {}
    /\ radar_exceptions = {}
    /\ radar_traces = {}
    /\ radar_spans = {}
    /\ radar_span_relations = {}
    /\ InitHookIdle

NextTrace ==
    \/ \E parent \in {None} \cup SpanArgs(trace_ctxs[1]) : ApiCreateSpan(parent)
    \/ \E span_id \in SpanArgs(trace_ctxs[1]) : ApiSetCurrentSpan(span_id)
    \/ \E span_id \in SpanArgs(trace_ctxs[1]), status \in {"ok", "slow", "error"} :
           ApiFinishSpan(span_id, status)
    \/ \E span_id \in SpanArgs(trace_ctxs[1]) : ApiAddSpanLog(span_id, "info")
    \/ ApiSaveTraceContext
    \/ \E fault \in Faults : TraceCreate(1, fault)
    \/ \E fault \in Faults : SpanCreate(1, fault)
    \/ \E fault \in Faults : RelationCreate(1, fault)
SpecTrace == InitTrace /\ [][NextTrace]_vars

\* ----------------------------------------- retention and the bulk clear
\* The store as the pipeline fills it, Radar.cleanup and the DELETE /clear
\* endpoint.  Every row carries created_at (auto_now_add), in hours.

\* Radar.retention_hours
retention_hours == 1

\* The older_than_hours a caller passes, an Optional[int]: None, or <<h>>.
HourArgs == {None} \cup {<<h>> : h \in 0..MaxNow}

\* Python's truth value of an Optional[int].
Truthy(v) == v # None /\ v[1] # 0

\* `hours = older_than_hours or self.retention_hours`
Hours(older_than_hours) ==
    IF Truthy(older_than_hours) THEN older_than_hours[1] ELSE retention_hours

\* `cutoff = datetime.now(timezone.utc) - timedelta(hours=hours)`
Cutoff(clock, hours) == clock - hours

\* `.filter(created_at__lt=cutoff)`
OlderThan(tbl, cutoff) == {row \in tbl : row.created_at < cutoff}

\* `.delete()` of the rows a queryset selects.
DeleteRowsNone(tbl, rows) == tbl
DeleteRows(tbl, rows) == tbl \ rows

\* on_delete=CASCADE of CapturedQuery.request and CapturedException.request:
\* the child rows left when the CapturedRequest rows `deleted` go.
CascadeNone(children, deleted) == children
Cascade(children, deleted) ==
    {c \in children : \A d \in deleted : c.request_id # d.request_id}

\* What is kept of a call: the operation, its argument, the number of
\* CapturedRequest rows it deleted, the child rows that went with them, what it
\* returned, the clock it read, and the same of the operation before it.
Summary(a) == [op |-> a.op, arg |-> a.arg, deleted |-> a.deleted, at |-> a.at]
NoCall == [op |-> "none", arg |-> None, deleted |-> 0, cascaded |-> 0, result |-> None,
           at |-> 0, n |-> 0,
           last |-> [op |-> "none", arg |-> None, deleted |-> 0, at |-> 0]]
Written == [api EXCEPT !.op = "write", !.arg = None, !.deleted = 0, !.cascaded = 0,
                       !.result = None, !.at = now, !.last = Summary(api)]

\* Time passes.
Tick ==
    /\ now < MaxNow
    /\ now' = now + 1
    /\ UNCHANGED <<mwVars, dbVars, listeners, calls, hooklog, slow_query_threshold,
                   radar_background_tasks, api>>

\* A request has been captured: its CapturedRequest row, the CapturedQuery and
\* CapturedException rows linked to it, and its Trace with the root Span (a
\* root span has no SpanRelation row).  uuid4 gives an id no request had.
Captures(r, with_query, with_exception) ==
    LET rid == Uuid4(r, 0) IN
    /\ \A row \in radar_requests : row.request_id # rid
    /\ \A row \in radar_traces : row.trace_id # rid
    /\ radar_requests' = radar_requests \cup {[request_id |-> rid, created_at |-> now]}
    /\ radar_queries' = IF with_query
                        THEN radar_queries \cup {[request_id |-> rid, created_at |-> now]}
                        ELSE radar_queries
    /\ radar_exceptions' = IF with_exception
                           THEN radar_exceptions \cup {[request_id |-> rid, created_at |-> now]}
                           ELSE radar_exceptions
    /\ radar_traces' = radar_traces \cup {[trace_id |-> rid, created_at |-> now]}
    /\ radar_spans' = radar_spans \cup {[span_id |-> rid, trace_id |-> rid, created_at |-> now]}
    /\ api' = Written
    /\ UNCHANGED <<mwVars, radar_span_relations, listeners, calls, hooklog,
                   slow_query_threshold, now, radar_background_tasks>>

\* A data-access call outside any request is captured: request_id is None.
CapturesUnlinkedQuery ==
    /\ [request_id |-> None, created_at |-> now] \notin radar_queries
    /\ radar_queries' = radar_queries \cup {[request_id |-> None, created_at |-> now]}
    /\ api' = Written
    /\ UNCHANGED <<mwVars, radar_requests, radar_exceptions, radar_traces, radar_spans,
                   radar_span_relations, listeners, calls, hooklog, slow_query_threshold,
                   now, radar_background_tasks>>

\* A tracked background task has run.
TracksTask ==
    /\ radar_background_tasks = {}
    /\ radar_background_tasks' = {[task_id |-> Uuid(0, now), created_at |-> now]}
    /\ api' = Written
    /\ UNCHANGED <<mwVars, dbVars, listeners, calls, hooklog, slow_query_threshold, now>>

\* Radar.cleanup(older_than_hours)
Cleanup(older_than_hours) ==
    /\ api.n < MaxOps
    /\ LET cutoff == Cutoff(now, Hours(older_than_hours))
           deleted == OlderThan(radar_requests, cutoff)
           queries == Cascade(radar_queries, deleted)
           exceptions == Cascade(radar_exceptions, deleted)
       IN /\ radar_requests' = DeleteRows(radar_requests, deleted)
          /\ radar_queries' = queries
          /\ radar_exceptions' = exceptions
          /\ api' = [op |-> "cleanup", arg |-> older_than_hours,
                     deleted |-> Cardinality(deleted),
                     cascaded |-> Cardinality(radar_queries \ queries)
                                  + Cardinality(radar_exceptions \ exceptions),
                     result |-> Cardinality(deleted), at |-> now, n |-> api.n + 1,
                     last |-> Summary(api)]
    /\ UNCHANGED <<mwVars, radar_traces, radar_spans, radar_span_relations, listeners, calls,
                   hooklog, slow_query_threshold, now, radar_background_tasks>>

\* DELETE /clear
ClearData(older_than_hours) ==
    /\ api.n < MaxOps
    /\ LET deleted == IF Truthy(older_than_hours)
                      THEN OlderThan(radar_requests, Cutoff(now, older_than_hours[1]))
                      ELSE radar_requests
           cascade_queries == Cascade(radar_queries, deleted)
           cascade_exceptions == Cascade(radar_exceptions, deleted)
           queries == IF Truthy(older_than_hours) THEN cascade_queries
                      ELSE DeleteRows(cascade_queries, cascade_queries)
           exceptions == IF Truthy(older_than_hours) THEN cascade_exceptions
                         ELSE DeleteRows(cascade_exceptions, cascade_exceptions)
       IN /\ radar_requests' = DeleteRows(radar_requests, deleted)
          /\ radar_queries' = queries
          /\ radar_exceptions' = exceptions
          /\ api' = [op |-> "clear", arg |-> older_than_hours,
                     deleted |-> Cardinality(deleted),
                     cascaded |-> Cardinality(radar_queries \ cascade_queries)
                                  + Cardinality(radar_exceptions \ cascade_exceptions),
                     result |-> "Data cleared successfully", at |-> now, n |-> api.n + 1,
                     last |-> Summary(api)]
    /\ UNCHANGED <<mwVars, radar_traces, radar_spans, radar_span_relations, listeners, calls,
                   hooklog, slow_query_threshold, now, radar_background_tasks>>

InitRetention ==
    /\ enable_tracing = TRUE
    /\ storage_faults = FALSE
    /\ faults_left = 0
    /\ uuid_next = [r \in Reqs |-> 0]
    /\ request_context = [t \in Tasks |-> None]
    /\ trace_context = [t \in Tasks |-> None]
    /\ pc = [r \in Reqs |-> "new"]
    /\ loc = [r \in Reqs |-> InitLoc]
    /\ app = [r \in Reqs |-> InitApp]
    /\ trace_ctxs = [r \in Reqs |-> NoTraceContext]
    /\ exception_cache = NoCache
    /\ radar_requests = {}
    /\ radar_queries = {}
    /\ radar_exceptions = {}
    /\ radar_traces = {}
    /\ radar_spans = {}
    /\ radar_span_relations = {}
    /\ listeners = <<"QueryCapture">>
    /\ calls = <<>>
    /\ hooklog = <<>>
    /\ slow_query_threshold = MaxThreshold
    /\ now = 0
    /\ radar_background_tasks = {}
    /\ api = NoCall
NextRetention ==
    \/ Tick
    \/ \E r \in Reqs, with_query \in BOOLEAN, with_exception \in BOOLEAN :
          Captures(r, with_query, with_exception)
    \/ CapturesUnlinkedQuery
    \/ TracksTask
    \/ \E h \in HourArgs : Cleanup(h)
    \/ \E h \in HourArgs : ClearData(h)
SpecRetention == InitRetention /\ [][NextRetention]_vars

\* ------------------------------------------------------- the waterfall
\* TracingManager.get_waterfall_data over the Span and SpanRelation rows that
\* save_trace_context stored for a trace of MaxStored spans, the first of them
\* the root, and for one span of another trace.
TraceT == <<"trace", "T">>
TraceU == <<"trace", "U">>
StoredIds == 1..MaxStored
StoredSpan(i) == Uuid4(1, i)

\* The rows of a trace whose spans have the given parents and start times.
StoredSpans(parents, starts) ==
    [i \in StoredIds |-> [span_id |-> StoredSpan(i), trace_id |-> TraceT,
                          parent_span_id |-> parents[i], start_time |-> starts[i]]]
StoredRelations(spans) ==
    LET rels == CalculateDepth(StoredSpan(1), spans, 0, Len(spans) + 1).rels
    IN {[trace_id |-> TraceT, parent_span_id |-> rels[k].parent_span_id,
         child_span_id |-> rels[k].child_span_id, depth |-> rels[k].depth] :
           k \in DOMAIN rels}

\* `WHERE s.trace_id = ?`
SpansOf(tbl, trace_id) == {row \in tbl : row.trace_id = trace_id}

\* `MIN(julianday(s.start_time)) OVER (PARTITION BY s.trace_id)`, over the
\* rows the WHERE clause left.
TraceStartOfStore(tbl, trace_id) ==
    CHOOSE m \in {row.start_time : row \in tbl} :
        \A row \in tbl : m <= row.start_time
TraceStart(tbl, trace_id) ==
    CHOOSE m \in {row.start_time : row \in SpansOf(tbl, trace_id)} :
        \A row \in SpansOf(tbl, trace_id) : m <= row.start_time

\* `FROM radar_spans s LEFT JOIN radar_span_relations r ON s.span_id =
\* r.child_span_id WHERE s.trace_id = ?`, with `COALESCE(r.depth, 0) as depth`
\* and offset_ms: one row per span and relation row of the span, one row for
\* a span with no relation row.
SpanTimeline(spans, relations, trace_id) ==
    LET row(sp, rel, depth) ==
            [span_id |-> sp.span_id, parent_span_id |-> sp.parent_span_id,
             start_time |-> sp.start_time, rel |-> rel, depth |-> depth,
             offset_ms |-> sp.start_time - TraceStart(spans, trace_id)]
    IN UNION {IF \E r \in relations : r.child_span_id = sp.span_id
              THEN {row(sp, r, r.depth) : r \in {q \in relations : q.child_span_id = sp.span_id}}
              ELSE {row(sp, None, 0)} : sp \in SpansOf(spans, trace_id)}

\* `ORDER BY offset_ms, depth`
OrderedBefore(a, b) ==
    \/ a.offset_ms < b.offset_ms
    \/ a.offset_ms = b.offset_ms /\ a.depth <= b.depth

\* The lists the query can return: the rows of the timeline, each once, in
\* the order of ORDER BY (rows equal in offset_ms and depth come in any order).
WaterfallLists(spans, relations, trace_id) ==
    LET timeline == SpanTimeline(spans, relations, trace_id)
        n == Cardinality(timeline)
    IN {f \in [1..n -> timeline] :
           /\ \A i, j \in 1..n : i # j => f[i] # f[j]
           /\ \A i, j \in 1..n : i < j => OrderedBefore(f[i], f[j])}

\* await tracing_manager.get_waterfall_data(trace_id)
GetWaterfallData(trace_id) ==
    /\ api.op = "none"
    /\ \E result \in WaterfallLists(radar_spans, radar_span_relations, trace_id) :
          api' = [op |-> "waterfall", arg |-> trace_id, result |-> result]
    /\ UNCHANGED <<mwVars, dbVars, listeners, calls, hooklog, slow_query_threshold, now,
                   radar_background_tasks>>

\* Every span but the root has an earlier span of the trace, or a span the
\* trace does not have, as its parent; save_trace_context stored the spans, and
\* the relations unless it failed before them.
InitWaterfall ==
    /\ enable_tracing = TRUE
    /\ storage_faults = FALSE
    /\ faults_left = 0
    /\ uuid_next = [r \in Reqs |-> 0]
    /\ request_context = [t \in Tasks |-> None]
    /\ trace_context = [t \in Tasks |-> None]
    /\ pc = [r \in Reqs |-> "new"]
    /\ loc = [r \in Reqs |-> InitLoc]
    /\ app = [r \in Reqs |-> InitApp]
    /\ trace_ctxs = [r \in Reqs |-> NoTraceContext]
    /\ exception_cache = NoCache
    /\ radar_requests = {}
    /\ radar_queries = {}
    /\ radar_exceptions = {}
    /\ radar_traces = {}
    /\ \E starts \in [StoredIds -> 0..MaxStart], other \in 0..MaxStart, saved \in BOOLEAN,
          parents \in [StoredIds -> {None, UnknownSpanId} \cup {StoredSpan(i) : i \in StoredIds}] :
          /\ parents[1] = None
          /\ \A i \in StoredIds \ {1} :
                parents[i] \in {UnknownSpanId} \cup {StoredSpan(j) : j \in 1..(i - 1)}
          /\ LET spans == StoredSpans(parents, starts)
             IN /\ radar_spans = {spans[i] : i \in StoredIds}
                                 \cup {[span_id |-> Uuid4(2, 1), trace_id |-> TraceU,
                                        parent_span_id |-> None, start_time |-> other]}
                /\ radar_span_relations = IF saved THEN StoredRelations(spans) ELSE {}
    /\ listeners = <<"QueryCapture">>
    /\ calls = <<>>
    /\ hooklog = <<>>
    /\ slow_query_threshold = MaxThreshold
    /\ now = 0
    /\ radar_background_tasks = {}
    /\ api = NoApi
NextWaterfall == \E trace_id \in {TraceT, TraceU} : GetWaterfallData(trace_id)
SpecWaterfall == InitWaterfall /\ [][NextWaterfall]_vars

\* ----------------------------------------------- tracked background tasks
\* async_wrapper of track_background_task, for MaxTasks invocations that run
\* concurrently; `api[t]` holds the locals of invocation t.
TaskIds == 1..MaxTasks

\* What the wrapped function does: it returns, raises an Exception, or is
\* cancelled at an await (CancelledError, a BaseException).
FuncOutcomes(t) ==
    {[kind |-> "return", result |-> <<"result", t>>],
     [kind |-> "raise", exception |-> [kind |-> "ValueError", by |-> t]],
     [kind |-> "raise", exception |-> [kind |-> "CancelledError", by |-> t]]}

\* str(e)
Str(exception) == <<"str", exception.kind, exception.by>>

\* `except Exception as e` catches e.
IsException(exception) == exception.kind # "CancelledError"

\* The locals `status` and `error` when the finally block is entered.
StatusAtFinallyCompleted(outcome) == "completed"
StatusAtFinally(outcome) ==
    IF outcome.kind = "return" THEN "completed" ELSE "failed"
ErrorAtFinally(outcome) ==
    IF outcome.kind = "raise" /\ IsException(outcome.exception)
    THEN Str(outcome.exception) ELSE None

NewTask == [pc |-> "create", task |-> None, status |-> None, error |-> None,
            pending |-> NoOutcome, outcome |-> NoOutcome, saved |-> FALSE,
            cancelled |-> FALSE]

\* `task = await BackgroundTask.create(..., status="running", ...)`; when it
\* fails the wrapper goes on without a row.  Then `status = "failed"` and the
\* function is awaited.
TaskCreate(t, fault) ==
    /\ Spend(fault)
    /\ api[t].pc = "create"
    /\ LET task_id == Uuid4(t, 0)
       IN IF fault
          THEN /\ UNCHANGED radar_background_tasks
               /\ api' = [api EXCEPT ![t].pc = "func", ![t].status = "failed"]
          ELSE /\ radar_background_tasks' = radar_background_tasks \cup
                      {[task_id |-> task_id, status |-> "running", error |-> None]}
               /\ api' = [api EXCEPT ![t].pc = "func", ![t].status = "failed",
                                     ![t].task = task_id]
    /\ UNCHANGED <<enable_tracing, storage_faults, uuid_next, request_context, trace_context,
                   pc, loc, app, trace_ctxs, exception_cache, dbVars, listeners, calls,
                   hooklog, slow_query_threshold, now>>

\* `await func(*args, **kwargs)` ends; the finally block runs up to `await
\* task.save()`, or to its end when there is no row.
FuncEnds(t, outcome) ==
    /\ api[t].pc = "func"
    /\ LET l == [api[t] EXCEPT !.status = StatusAtFinally(outcome),
                               !.error = ErrorAtFinally(outcome),
                               !.pending = outcome]
       IN api' = [api EXCEPT ![t] =
                     IF l.task = None
                     THEN [l EXCEPT !.pc = "done", !.outcome = outcome]
                     ELSE [l EXCEPT !.pc = "save"]]
    /\ UNCHANGED <<mwVars, dbVars, listeners, calls, hooklog, slow_query_threshold, now,
                   radar_background_tasks>>

\* `await task.save()` of the finally block; a failure is swallowed.  Then the
\* wrapper returns the function's result, or the function's exception goes on.
TaskSave(t, fault) ==
    /\ Spend(fault)
    /\ api[t].pc = "save"
    /\ radar_background_tasks' =
          IF fault THEN radar_background_tasks
          ELSE {IF row.task_id = api[t].task
                THEN [row EXCEPT !.status = api[t].status, !.error = api[t].error]
                ELSE row : row \in radar_background_tasks}
    /\ api' = [api EXCEPT ![t].pc = "done", ![t].outcome = api[t].pending,
                          ![t].saved = ~fault]
    /\ UNCHANGED <<enable_tracing, storage_faults, uuid_next, request_context, trace_context,
                   pc, loc, app, trace_ctxs, exception_cache, dbVars, listeners, calls,
                   hooklog, slow_query_threshold, now>>

\* The invocation is cancelled while it awaits `task.save()` in the finally
\* block: CancelledError is not an Exception, so it leaves the wrapper in place
\* of the function's result or exception, and the row is not stored.
TaskSaveCancelled(t) ==
    /\ api[t].pc = "save"
    /\ api' = [api EXCEPT ![t].pc = "done", ![t].cancelled = TRUE,
                          ![t].outcome = [kind |-> "raise",
                                          exception |-> [kind |-> "CancelledError",
                                                         by |-> 0]]]
    /\ UNCHANGED <<mwVars, dbVars, listeners, calls, hooklog, slow_query_threshold, now,
                   radar_background_tasks>>

InitBackground ==
    /\ enable_tracing = TRUE
    /\ storage_faults = TRUE
    /\ faults_left = MaxFaults
    /\ uuid_next = [r \in Reqs |-> 0]
    /\ request_context = [t \in Tasks |-> None]
    /\ trace_context = [t \in Tasks |-> None]
    /\ pc = [r \in Reqs |-> "new"]
    /\ loc = [r \in Reqs |-> InitLoc]
    /\ app = [r \in Reqs |-> InitApp]
    /\ trace_ctxs = [r \in Reqs |-> NoTraceContext]
    /\ exception_cache = NoCache
    /\ radar_requests = {}
    /\ radar_queries = {}
    /\ radar_exceptions = {}
    /\ radar_traces = {}
    /\ radar_spans = {}
    /\ radar_span_relations = {}
    /\ listeners = <<"QueryCapture">>
    /\ calls = <<>>
    /\ hooklog = <<>>
    /\ slow_query_threshold = MaxThreshold
    /\ now = 0
    /\ radar_background_tasks = {}
    /\ api = [t \in TaskIds |-> NewTask]
NextBackground ==
    \/ \E t \in TaskIds, fault \in Faults : TaskCreate(t, fault)
    \/ \E t \in TaskIds : \E outcome \in FuncOutcomes(t) : FuncEnds(t, outcome)
    \/ \E t \in TaskIds, fault \in Faults : TaskSave(t, fault)
    \/ \E t \in TaskIds : TaskSaveCancelled(t)
SpecBackground == InitBackground /\ [][NextBackground]_vars

\* ------------------------------------------------- request body capture
\* A request body is a sequence of bytes of four sorts: "d" a byte of data,
\* "w" a byte of JSON whitespace, "s" a byte of a sensitive value, "x" a byte
\* that is not valid UTF-8.  A stored body is text over "d", "w", "R" (the
\* redaction marker) and "T" (the truncation marker).
Bytes == {"d", "w", "s", "x"}
RECURSIVE SeqsUpTo(_, _)
SeqsUpTo(S, n) ==
    IF n = 0 THEN {<<>>}
    ELSE LET shorter == SeqsUpTo(S, n - 1)
         IN shorter \cup {Append(b, x) : b \in {c \in shorter : Len(c) = n - 1}, x \in S}
Bodies == SeqsUpTo(Bytes, MaxBodyLen)
ContentTypes == {"application/json", "text/plain", ""}
Limits == 1..MaxLimit

NotWhitespace(b) == b # "w"
ValidUtf8(b) == b # "x"

\* json.loads(body) raises UnicodeDecodeError on a byte that is not UTF-8 and
\* JSONDecodeError on a document with no value.
JsonLoads(body) ==
    IF \E i \in 1..Len(body) : ~ValidUtf8(body[i]) THEN [ok |-> FALSE]
    ELSE IF SelectSeq(body, NotWhitespace) = <<>> THEN [ok |-> FALSE]
    ELSE [ok |-> TRUE, tokens |-> SelectSeq(body, NotWhitespace)]

\* json.dumps(value, indent=2): the tokens of the value with the serialiser's
\* own whitespace between them, whatever whitespace the document had.
RECURSIVE JsonDumpsIndent(_)
JsonDumpsIndent(tokens) ==
    IF Len(tokens) <= 1 THEN tokens
    ELSE <<Head(tokens), "w">> \o JsonDumpsIndent(Tail(tokens))

\* body.decode("utf-8", errors="ignore")
Decode(body) == SelectSeq(body, ValidUtf8)

\* _get_request_body
GetRequestBody(body, content_type) ==
    IF body = <<>> THEN None
    ELSE IF content_type = "application/json" /\ JsonLoads(body).ok
         THEN JsonDumpsIndent(JsonLoads(body).tokens)
         ELSE Decode(body)

\* truncate_body: a text over the limit keeps its beginning and ends with the
\* truncation marker, within the limit.
TruncateBody(text, max_size) ==
    IF Len(text) <= max_size THEN text
    ELSE Append(SubSeq(text, 1, max_size - 1), "T")

\* redact_sensitive_data: the sensitive values become the redaction marker.
RedactSensitiveData(text) ==
    [i \in 1..Len(text) |-> IF text[i] = "s" THEN "R" ELSE text[i]]

\* Request headers: a header name to its value, "s" a sensitive value, "d"
\* any other.
HeaderNames == {"authorization", "user-agent"}
SensitiveHeaders == {"authorization"}
HeaderSets ==
    {[n \in names |-> IF n \in SensitiveHeaders THEN "s" ELSE "d"] : names \in SUBSET HeaderNames}

\* serialize_headers: the value of a header of the redaction set becomes the
\* redaction marker.
SerializeHeaders(headers) ==
    [n \in DOMAIN headers |-> IF n \in SensitiveHeaders THEN "R" ELSE headers[n]]

\* The `body=` argument of CapturedRequest(...) in dispatch.  An empty str is
\* falsy, as None is.
StoredBodyTruncatedOnly(body, content_type, max_body_size) ==
    LET request_body == GetRequestBody(body, content_type)
    IN IF request_body = None \/ request_body = <<>> THEN None
       ELSE TruncateBody(request_body, max_body_size)
StoredBody(body, content_type, max_body_size) ==
    LET request_body == GetRequestBody(body, content_type)
    IN IF request_body = None \/ request_body = <<>> THEN None
       ELSE RedactSensitiveData(TruncateBody(request_body, max_body_size))

\* dispatch, up to the construction of the CapturedRequest of one request.
CaptureBody(headers, body, content_type, max_body_size) ==
    /\ api = NoApi
    /\ api' = [op |-> "body", body |-> body, content_type |-> content_type,
               max_body_size |-> max_body_size, request_headers |-> headers,
               headers |-> SerializeHeaders(headers),
               stored |-> StoredBody(body, content_type, max_body_size)]
    /\ UNCHANGED <<mwVars, dbVars, listeners, calls, hooklog, slow_query_threshold, now,
                   radar_background_tasks>>

InitBody ==
    /\ InitNoRequest
    /\ listeners = <<"QueryCapture">>
NextBody ==
    \E headers \in HeaderSets, body \in Bodies, content_type \in ContentTypes,
       max_body_size \in Limits :
        CaptureBody(headers, body, content_type, max_body_size)
SpecBody == InitBody /\ [][NextBody]_vars

\* ------------------------------------- the depth of the relation traversal
\* calculate_depth calls itself once per level of the span tree, so a chain
\* of n spans needs n nested frames.  The interpreter allows only so many
\* (sys.getrecursionlimit(), 1000 unless the host raised it) and raises
\* RecursionError beyond; recursion_limit is that number on the scale of
\* MaxSpans.
recursion_limit == 3

\* _save_span_relations on the Trace Context a host has built: the relations
\* calculate_depth returns, or the RecursionError it raises.
SaveSpanRelations ==
    /\ pc[1] = "api"
    /\ api = NoApi
    /\ trace_ctxs[1].root_span_id # None
    /\ LET tc == trace_ctxs[1]
           res == CalculateDepth(tc.root_span_id, tc.spans, 0, recursion_limit)
       IN api' = [op |-> "relations", relations |-> res.rels,
                  raised |-> IF res.overflow THEN "RecursionError" ELSE "none"]
    /\ pc' = [pc EXCEPT ![1] = "saved"]
    /\ UNCHANGED <<enable_tracing, storage_faults, faults_left, uuid_next, request_context,
                   trace_context, loc, app, trace_ctxs, exception_cache, dbVars, listeners,
                   calls, hooklog, slow_query_threshold, now, radar_background_tasks>>

NextRelations ==
    \/ \E parent \in {None} \cup SpanArgs(trace_ctxs[1]) : ApiCreateSpan(parent)
    \/ \E span_id \in SpanArgs(trace_ctxs[1]) : ApiSetCurrentSpan(span_id)
    \/ SaveSpanRelations
SpecRelations == InitTrace /\ [][NextRelations]_vars

\* ------------------------------------------------- apply_tortoise_patch
\* The backend client classes apply_tortoise_patch tries to import, in the
\* order it appends them to `targets`; `installed` are those whose import
\* succeeds.  An attribute of a class is the method the class came with or a
\* wrapper defined by the k-th apply_tortoise_patch call that patched
\* something; `cells[k]` holds that call's locals original_execute_*, which
\* every wrapper defined in the call reads when it runs.
Backends == <<"SqliteClient", "AsyncpgDBClient", "MySQLClient">>
BackendSet == {Backends[i] : i \in DOMAIN Backends}
Original(cls, entry) == [kind |-> "original", cls |-> cls, entry |-> entry]
Wrapper(k, entry) == [kind |-> "wrapper", cell |-> k, entry |-> entry]
UnpatchedClass(cls) ==
    [execute_query |-> Original(cls, "execute_query"),
     execute_script |-> Original(cls, "execute_script"),
     execute_insert |-> Original(cls, "execute_insert"),
     _radar_patched |-> FALSE]

\* `getattr(client_cls, "_radar_patched", False)`
AlreadyPatchedNever(class) == FALSE
AlreadyPatched(class) == class._radar_patched

\* The `for client_cls in targets` loop of the k-th patching call: the locals
\* are assigned anew for each class that is patched, and the class gets the
\* wrappers defined in that turn.
RECURSIVE PatchLoop(_, _, _, _)
PatchLoop(targets, classes, cell, k) ==
    IF targets = <<>> THEN [classes |-> classes, cell |-> cell]
    ELSE LET client_cls == Head(targets)
             class == classes[client_cls]
         IN IF AlreadyPatched(class)
            THEN PatchLoop(Tail(targets), classes, cell, k)
            ELSE PatchLoop(Tail(targets),
                           [classes EXCEPT ![client_cls] =
                               [execute_query |-> Wrapper(k, "execute_query"),
                                execute_script |-> Wrapper(k, "execute_script"),
                                execute_insert |-> Wrapper(k, "execute_insert"),
                                _radar_patched |-> TRUE]],
                           [execute_query |-> class.execute_query,
                            execute_script |-> class.execute_script,
                            execute_insert |-> class.execute_insert],
                           k)

NoCell == [execute_query |-> None, execute_script |-> None, execute_insert |-> None]

\* apply_tortoise_patch()
ApplyTortoisePatch(world) ==
    LET targets == SelectSeq(Backends, LAMBDA b : b \in world.installed)
        k == Len(world.cells) + 1
        res == PatchLoop(targets, world.classes, NoCell, k)
    IN [world EXCEPT !.classes = res.classes, !.cells = Append(@, res.cell)]

\* A call of an attribute: a wrapper runs the listeners' before_query, what
\* its call's local original_execute_* holds, and the listeners' after_query.
\* `rounds` counts the turns of the listeners, `ran` is the backend method
\* that ran in the end.
RECURSIVE RunEntry(_, _)
RunEntry(attr, cells) ==
    IF attr.kind = "original" THEN [rounds |-> 0, ran |-> <<attr.cls, attr.entry>>]
    ELSE LET inner == RunEntry(cells[attr.cell][attr.entry], cells)
         IN [rounds |-> inner.rounds + 1, ran |-> inner.ran]

NoEntryCall == [cls |-> "none", entry |-> "none", rounds |-> 0, ran |-> None]

\* QueryCapture.__init__: apply_tortoise_patch(), then add_query_listener(self).
NewQueryCapture ==
    /\ Len(listeners) < MaxListeners
    /\ listeners' = Append(listeners, "QueryCapture")
    /\ api' = [ApplyTortoisePatch(api) EXCEPT !.op = "capture", !.captures = @ + 1,
                                              !.call = NoEntryCall]
    /\ UNCHANGED <<mwVars, dbVars, calls, hooklog, slow_query_threshold, now,
                   radar_background_tasks>>

\* A host statement reaches client_cls.<entry> of an installed backend.
CallEntry(client_cls, entry) ==
    /\ api.op # "call"
    /\ LET run == RunEntry(api.classes[client_cls][entry], api.cells)
       IN api' = [api EXCEPT !.op = "call",
                             !.call = [cls |-> client_cls, entry |-> entry,
                                       rounds |-> run.rounds, ran |-> run.ran]]
    /\ UNCHANGED <<mwVars, dbVars, listeners, calls, hooklog, slow_query_threshold, now,
                   radar_background_tasks>>

\* The call has returned.
CallReturns ==
    /\ api.op = "call"
    /\ api' = [api EXCEPT !.op = "idle", !.call = NoEntryCall]
    /\ UNCHANGED <<mwVars, dbVars, listeners, calls, hooklog, slow_query_threshold, now,
                   radar_background_tasks>>

InitPatch ==
    /\ enable_tracing = FALSE
    /\ storage_faults = FALSE
    /\ faults_left = 0
    /\ uuid_next = [r \in Reqs |-> 0]
    /\ request_context = [t \in Tasks |-> None]
    /\ trace_context = [t \in Tasks |-> None]
    /\ pc = [r \in Reqs |-> "new"]
    /\ loc = [r \in Reqs |-> InitLoc]
    /\ app = [r \in Reqs |-> InitApp]
    /\ trace_ctxs = [r \in Reqs |-> NoTraceContext]
    /\ exception_cache = NoCache
    /\ radar_requests = {}
    /\ radar_queries = {}
    /\ radar_exceptions = {}
    /\ radar_traces = {}
    /\ radar_spans = {}
    /\ radar_span_relations = {}
    /\ listeners = <<>>
    /\ calls = <<>>
    /\ hooklog = <<>>
    /\ slow_query_threshold = MaxThreshold
    /\ now = 0
    /\ radar_background_tasks = {}
    /\ \E installed \in SUBSET BackendSet \ {{}} :
          api = [op |-> "idle", installed |-> installed,
                 classes |-> [b \in BackendSet |-> UnpatchedClass(b)],
                 cells |-> <<>>, captures |-> 0, call |-> NoEntryCall]
NextPatch ==
    \/ NewQueryCapture
    \/ AddQueryListener("plain")
    \/ \E client_cls \in api.installed, entry \in Entries : CallEntry(client_cls, entry)
    \/ CallReturns
SpecPatch == InitPatch /\ [][NextPatch]_vars

\* ================================================================ claims
Captured(r) == loc[r].request_id # None
RowsOf(r) == {row \in radar_requests : row.request_id = loc[r].request_id}
RootSpan(r) == trace_ctxs[r].spans[SpanIndex(trace_ctxs[r], loc[r].root_span_id)]

\* C1: whatever the interleaving of the requests, the correlation id and the
\* Trace Context the query-capture listener reads in a data-access call of
\* request A are A's own: every CapturedQuery row carries the correlation id
\* of the request whose call wrote it, and every span of A's trace was made
\* by A.
C1_ContextIsolation ==
    /\ \A row \in radar_queries : row.request_id = loc[row.by].request_id
    /\ \A r \in Reqs :
          /\ app[r].q.phase # "idle" =>
                /\ app[r].q.request_id = loc[r].request_id
                /\ app[r].q.span_id # None => app[r].q.span_id \in SpanIds(trace_ctxs[r])
          /\ \A i \in DOMAIN trace_ctxs[r].spans : trace_ctxs[r].spans[i].by = r

\* Two captured requests in flight: one has written its CapturedQuery row, the
\* other is inside a data-access call with a client span open.
C1_Witness ==
    \E row \in radar_queries : \E r \in Reqs \ {row.by} :
        /\ row.request_id # None
        /\ Captured(r) /\ pc[r] # "done"
        /\ app[r].q.phase = "op" /\ app[r].q.span_id # None

\* C2: every captured request whose handler raised has, once dispatch has
\* ended, exactly one CapturedException row with its own correlation id
\* (stated for runs in which no storage write fails).
C2_OneExceptionRowPerFailedRequest ==
    \A r \in Reqs :
        (pc[r] = "done" /\ loc[r].exception_occurred) =>
            Cardinality({e \in radar_exceptions : e.request_id = loc[r].request_id}) = 1

\* C3 as claimed: every processed captured request has exactly one
\* CapturedRequest row and no two requests share a correlation id.
C3_ExactlyOneRowPerRequest ==
    \A r \in Reqs :
        (pc[r] = "done" /\ Captured(r)) =>
            /\ Cardinality(RowsOf(r)) = 1
            /\ \A r2 \in Reqs \ {r} : loc[r2].request_id # loc[r].request_id

\* C3, amended: no two requests share a correlation id, and a correlation id
\* has one CapturedRequest row if a save() of its request succeeded and none
\* otherwise; the rows stored are as many as the requests with a save() that
\* succeeded.
C3_OneRowPerSavedRequest ==
    /\ \A r \in Reqs : Captured(r) =>
          /\ \A r2 \in Reqs \ {r} : loc[r2].request_id # loc[r].request_id
          /\ Cardinality(RowsOf(r)) = IF loc[r].saved_in_db THEN 1 ELSE 0
    /\ Cardinality(radar_requests) = Cardinality({r \in Reqs : loc[r].saved_in_db})

\* Both requests processed, one stored by its final save() after its first
\* save() failed, the other stored too.
C3_Witness ==
    /\ \A r \in Reqs : pc[r] = "done" /\ Captured(r) /\ loc[r].saved_in_db
    /\ faults_left < MaxFaults

\* The hooks of one kind that call c has invoked, in the order it invoked them.
Hooks(c, hook) == SelectSeq(hooklog[c], LAMBDA e : e.hook = hook)
OperationAwaited(c) == \E a \in DOMAIN hooklog[c] : hooklog[c][a].hook = "op"
OperationReturned(c) == calls[c].result # None
OperationRaised(c) == calls[c].exc # NoException

\* C4: in every call through a wrapped entry point, among concurrent calls,
\* before_query is invoked on the registered listeners in registration order,
\* all of them before the real operation is awaited; after the operation
\* after_query is invoked on the listeners in the same order, and the context
\* a listener's after_query receives is the value that listener's own
\* before_query returned in this call (None if it raised).
C4_BeforeOperationAfter ==
    \A c \in DOMAIN calls :
        LET log == hooklog[c]
            befores == Hooks(c, "before")
            afters == Hooks(c, "after")
        IN /\ \A a, b \in DOMAIN log :
                 /\ (log[a].hook = "before" /\ log[b].hook \in {"op", "after"}) => a < b
                 /\ (log[a].hook = "op" /\ log[b].hook = "after") => a < b
                 /\ (log[a].hook = "op" /\ log[b].hook = "op") => a = b
           /\ \A k \in DOMAIN befores : befores[k].listener = k
           /\ \A k \in DOMAIN afters : afters[k].listener = k
           /\ OperationAwaited(c) => Len(befores) = calls[c].registered
           /\ Len(afters) > 0 => OperationAwaited(c)
           /\ calls[c].pc = "done" => Len(afters) = calls[c].registered
           /\ \A k \in DOMAIN afters :
                 /\ afters[k].ctx = befores[k].ctx
                 /\ afters[k].ctx # None => afters[k].ctx = <<"ctx", k, c>>

\* Two listeners that return contexts; one host call has ended and another is
\* between the after_query calls of the first and the second listener.
C4_Witness ==
    /\ Len(listeners) = 2
    /\ \E c, d \in HostCalls :
          /\ c # d
          /\ calls[c].pc = "done"
          /\ \A k \in DOMAIN Hooks(c, "after") : Hooks(c, "after")[k].ctx # None
          /\ calls[d].pc = "after" /\ calls[d].i = 2
          /\ Len(Hooks(d, "after")) = 1 /\ Hooks(d, "after")[1].ctx # None

\* C5: whatever listeners raise in before_query or after_query, a call whose
\* real operation returned has invoked before_query and after_query on every
\* listener that was registered when the call began, a QueryCapture among them
\* has its CapturedQuery row for a statement it records unless its own INSERT
\* failed, and the caller gets the operation's result.
C5_ListenerIsolation ==
    \A c \in DOMAIN calls :
        (calls[c].pc = "done" /\ OperationReturned(c)) =>
            /\ calls[c].outcome = [kind |-> "return", result |-> <<"result", c>>]
            /\ \A j \in 1..calls[c].registered :
                  /\ \E k \in DOMAIN Hooks(c, "before") : Hooks(c, "before")[k].listener = j
                  /\ \E k \in DOMAIN Hooks(c, "after") : Hooks(c, "after")[k].listener = j
                  /\ (listeners[j] = "QueryCapture" /\ calls[c].statement = "dml") =>
                        \/ \E row \in radar_queries : row.call = c /\ row.listener = j
                        \/ \E d \in DOMAIN calls :
                               /\ calls[d].parent = c /\ calls[d].by = j
                               /\ OperationRaised(d)

\* A host call has returned its result past a listener whose after_query
\* raises, and the QueryCapture registered after that listener has its row.
C5_Witness ==
    /\ Len(listeners) = 2
    /\ listeners[1] = "raises_after" /\ listeners[2] = "QueryCapture"
    /\ \E c \in HostCalls :
          /\ calls[c].pc = "done" /\ calls[c].registered = 2
          /\ calls[c].outcome = [kind |-> "return", result |-> <<"result", c>>]
          /\ \E row \in radar_queries : row.call = c /\ row.listener = 2

\* C6: in a call whose real operation raised -- through execute_query,
\* execute_script or execute_insert -- the call leaves only after after_query
\* has been invoked, with that exception, on every listener that was registered
\* when the call began, and it leaves by raising that same exception.
C6_OperationErrorPropagates ==
    \A c \in DOMAIN calls :
        OperationRaised(c) =>
            /\ calls[c].pc = "done" <=> calls[c].outcome # NoOutcome
            /\ calls[c].outcome # NoOutcome =>
                  /\ calls[c].outcome = [kind |-> "raise", exception |-> calls[c].exc]
                  /\ calls[c].exc = [kind |-> "OperationalError", by |-> c]
                  /\ \A j \in 1..calls[c].registered :
                        \E k \in DOMAIN Hooks(c, "after") :
                            /\ Hooks(c, "after")[k].listener = j
                            /\ Hooks(c, "after")[k].exc = calls[c].exc

\* A host call through execute_script has raised its operation's exception
\* past a listener whose after_query raises, and so has the execute_insert of
\* the QueryCapture that recorded it.
C6_Witness ==
    /\ \E j \in DOMAIN listeners : listeners[j] = "raises_after"
    /\ \E c \in HostCalls, d \in DOMAIN calls :
          /\ calls[c].entry = "execute_script" /\ calls[c].registered = 2
          /\ calls[c].pc = "done" /\ calls[c].outcome.kind = "raise"
          /\ calls[d].parent = c /\ calls[d].entry = "execute_insert"
          /\ calls[d].pc = "done" /\ calls[d].outcome.kind = "raise"

\* The number of edges from span a up to ... down to span d, following
\* parent_span_id from d; -1 when a is no ancestor of d.
RECURSIVE PathLength(_, _, _, _)
PathLength(tc, a, d, fuel) ==
    IF d = a THEN 0
    ELSE IF fuel = 0 \/ d \notin SpanIds(tc) THEN 0 - 1
    ELSE LET up == PathLength(tc, a, tc.spans[SpanIndex(tc, d)].parent_span_id, fuel - 1)
         IN IF up < 0 THEN up ELSE up + 1

\* The spans form a tree under the root span.
IsSpanTree(tc) ==
    /\ tc.root_span_id \in SpanIds(tc)
    /\ tc.spans[SpanIndex(tc, tc.root_span_id)].parent_span_id = None
    /\ \A d \in SpanIds(tc) \ {tc.root_span_id} :
          PathLength(tc, tc.root_span_id, d, Len(tc.spans)) >= 1

AncestorRelations(tc) ==
    {[trace_id |-> tc.trace_id, parent_span_id |-> a, child_span_id |-> d,
      depth |-> PathLength(tc, a, d, Len(tc.spans))] :
        <<a, d>> \in {x \in SpanIds(tc) \X SpanIds(tc) :
                        PathLength(tc, x[1], x[2], Len(tc.spans)) >= 1}}

\* C11: once a trace whose spans form a tree has been persisted, the
\* SpanRelation rows are exactly the ancestor/descendant pairs of the tree,
\* each with the number of edges between the two as its depth.
C11_AllAncestorPairsStored ==
    (pc[1] = "done" /\ (\E t \in radar_traces : t.trace_id = trace_ctxs[1].trace_id)
       /\ IsSpanTree(trace_ctxs[1]))
    => radar_span_relations = AncestorRelations(trace_ctxs[1])

\* C12: the first span created in a TraceContext is its root span, and
\* root_span_id names it after every later create_span, set_current_span,
\* finish_span and add_span_log call.
C12_RootIsFirstSpan ==
    LET tc == trace_ctxs[1]
    IN /\ tc.spans = <<>> => tc.root_span_id = None
       /\ tc.spans # <<>> =>
             /\ tc.root_span_id = tc.spans[1].span_id
             /\ tc.root_span_id = Uuid4(1, 1)

\* A host has created MaxSpans spans, made a later span the current one,
\* finished a span and logged on one.
C12_Witness ==
    LET tc == trace_ctxs[1]
    IN /\ Len(tc.spans) = MaxSpans
       /\ tc.current_span_id = tc.spans[MaxSpans].span_id
       /\ TotalFinishes(tc.spans) = 1 /\ TotalLogs(tc.spans) = 1
       /\ tc.root_span_id = tc.spans[1].span_id

\* C13: every span a Trace Context holds, and every Span row persisted, has a
\* parent_span_id that is None or the id of another span of the same trace --
\* also the root span of a request that came with an x-parent-span-id header.
C13_ParentInSameTrace ==
    /\ \A r \in Reqs :
          \A i \in DOMAIN trace_ctxs[r].spans :
              LET span == trace_ctxs[r].spans[i]
              IN \/ span.parent_span_id = None
                 \/ span.parent_span_id \in SpanIds(trace_ctxs[r]) \ {span.span_id}
    /\ \A s \in radar_spans :
          \/ s.parent_span_id = None
          \/ \E r \in Reqs :
                /\ trace_ctxs[r].trace_id = s.trace_id
                /\ s.parent_span_id \in SpanIds(trace_ctxs[r]) \ {s.span_id}

\* C14: for a captured request with tracing enabled, the root span is not
\* finished while the handler runs, and from the completion path on -- after a
\* response and after an exception alike -- it has been finished exactly once,
\* with status 'error' if the handler raised and 'ok' otherwise; the Span row
\* persisted for it carries that status.
C14_RootSpanFinishedOnce ==
    \A r \in Reqs :
        loc[r].traced =>
            LET status == IF app[r].st = "raised" THEN "error" ELSE "ok"
            IN /\ pc[r] \in {"initial_save", "await_app"} => RootSpan(r).finishes = 0
               /\ pc[r] \in {"final_save", "exc_create", "trace_create", "span_create",
                             "relations", "done"} =>
                     /\ RootSpan(r).finishes = 1
                     /\ RootSpan(r).ended
                     /\ RootSpan(r).status = status
               /\ \A s \in radar_spans :
                     s.span_id = loc[r].root_span_id => s.ended /\ s.status = status

\* Two traced requests have completed and persisted their root spans, one
\* after its handler raised and one after a response.
C14_Witness ==
    \E r1, r2 \in Reqs :
        /\ pc[r1] = "done" /\ loc[r1].traced /\ app[r1].st = "raised"
        /\ \E s \in radar_spans : s.span_id = loc[r1].root_span_id /\ s.status = "error"
        /\ pc[r2] = "done" /\ loc[r2].traced /\ app[r2].st = "responded"
        /\ \E s \in radar_spans : s.span_id = loc[r2].root_span_id /\ s.status = "ok"

\* C15: when dispatch of a captured request has ended, the task that ran it
\* reads None from both ContextVars, the correlation id and the Trace Context.
C15_CarriersCleared ==
    \A r \in Reqs :
        (pc[r] = "done" /\ Captured(r)) =>
            /\ ContextGet(request_context, DispatchTask(r)) = None
            /\ ContextGet(trace_context, DispatchTask(r)) = None

\* C16: when a request is cancelled while its handler runs, and no storage
\* write fails, dispatch ends with the duration recorded, the root span
\* finished, the final CapturedRequest state and the trace persisted and the
\* correlation id cleared.
C16_CompletionRunsWhenCancelled ==
    (pc[1] = "done" /\ loc[1].cancelled) =>
        /\ loc[1].duration_set
        /\ loc[1].traced => RootSpan(1).ended
        /\ \E row \in RowsOf(1) : row.duration_set
        /\ loc[1].traced => \E t \in radar_traces : t.trace_id = trace_ctxs[1].trace_id
        /\ ContextGet(request_context, DispatchTask(1)) = None

\* Some excluded path is the beginning of the path.
PathExcluded(path) ==
    \E p \in exclude_paths : \E k \in 0..Len(path) : SubSeq(path, 1, k) = p

C18_DeliveredEqualsSent ==
    \A r \in Reqs :
        /\ loc[r].delivered = loc[r].sent
        /\ \A i \in DOMAIN loc[r].delivered : loc[r].delivered[i] = [of |-> r, n |-> i]

\* A chunk has been delivered after the capturing had stopped: every chunk the
\* handler produced has reached the caller and the stream is still open.
C18_Witness ==
    \E r \in Reqs :
        /\ pc[r] = "done" /\ Captured(r) /\ loc[r].outcome.kind = "return"
        /\ loc[r].stream = "next" /\ ~loc[r].capturing
        /\ Len(loc[r].sent) = MaxChunks
        /\ loc[r].response_text < Len(loc[r].delivered)

\* The after_query invocations of QueryCapture listeners that finished a client
\* span: <<call, position in the call's log>>.
Measured ==
    {ca \in UNION {{<<c, a>> : a \in DOMAIN hooklog[c]} : c \in DOMAIN hooklog} :
        LET e == hooklog[ca[1]][ca[2]]
        IN /\ e.hook = "after" /\ ~e.raised /\ e.ctx # None
           /\ listeners[e.listener] = "QueryCapture"
           /\ e.span_id # None}
MeasuredSpan(ca) ==
    LET tc == trace_ctxs[Deref(trace_context[CallTask])]
    IN tc.spans[SpanIndex(tc, hooklog[ca[1]][ca[2]].span_id)]

\* C19: the status a QueryCapture gives the span of a query is error when the
\* operation raised, whatever the duration; else slow when the measured
\* duration is at least slow_query_threshold; else ok.
C19_QueryStatus ==
    \A ca \in Measured :
        LET e == hooklog[ca[1]][ca[2]]
            status == MeasuredSpan(ca).status
        IN /\ MeasuredSpan(ca).ended
           /\ status \in {"error", "slow", "ok"}
           /\ status = "error" <=> e.exc # NoException
           /\ status = "slow" <=> (e.exc = NoException /\ e.duration_ms >= slow_query_threshold)
           /\ status = "ok" <=> (e.exc = NoException /\ e.duration_ms < slow_query_threshold)

\* Two QueryCapture listeners measured one operation that returned: one
\* measured exactly the threshold and marked its span slow, the other measured
\* less and marked its span ok.
C19_Witness ==
    \E ca, cb \in Measured :
        /\ hooklog[ca[1]][ca[2]].exc = NoException
        /\ hooklog[ca[1]][ca[2]].duration_ms = slow_query_threshold
        /\ MeasuredSpan(ca).status = "slow"
        /\ hooklog[cb[1]][cb[2]].duration_ms < slow_query_threshold
        /\ MeasuredSpan(cb).status = "ok"

QueryCaptures == {j \in DOMAIN listeners : listeners[j] = "QueryCapture"}

\* C20: the INSERT by which a QueryCapture persists its CapturedQuery row is
\* not captured -- it starts no further INSERT, creates no span and gets no
\* CapturedQuery row of its own -- so the calls, spans and rows one host call
\* gives rise to are at most one per QueryCapture listener.
C20_PersistenceNotCaptured ==
    /\ \A c \in DOMAIN calls :
          calls[c].parent # 0 =>
             /\ calls[c].statement = "radar" /\ calls[c].entry = "execute_insert"
             /\ calls[calls[c].parent].parent = 0
             /\ \A j \in DOMAIN calls[c].span_ids : calls[c].span_ids[j] = None
             /\ \A j \in DOMAIN calls[c].ctxs :
                   listeners[j] = "QueryCapture" => calls[c].ctxs[j] = None
             /\ \A row \in radar_queries : row.call # c
    /\ Len(calls) <= Cardinality(HostCalls) * (1 + Cardinality(QueryCaptures))
    /\ Cardinality(radar_queries) <= Cardinality(HostCalls) * Cardinality(QueryCaptures)
    /\ Len(trace_ctxs[1].spans) <= 1 + Cardinality(HostCalls) * Cardinality(QueryCaptures)

\* A host call has returned after each of two QueryCapture listeners persisted
\* its row through an INSERT of its own, which went through both listeners.
C20_Witness ==
    \E c \in HostCalls :
        /\ calls[c].pc = "done" /\ Cardinality(QueryCaptures) = 2
        /\ Cardinality({d \in DOMAIN calls : calls[d].parent = c /\ calls[d].pc = "done"
                                            /\ Len(calls[d].ctxs) = 2}) = 2
        /\ Cardinality(radar_queries) = 2
        /\ Len(trace_ctxs[1].spans) = 3

\* C21: a host data-access call that is intercepted (its statement is neither
\* internal nor DDL) has at most one CapturedQuery row, and exactly one once it
\* has returned with every write of a row having succeeded, however many
\* QueryCapture listeners were registered before it.
C21_OneRowPerHostCall ==
    \A c \in HostCalls :
        calls[c].statement = "dml" /\ QueryCaptures # {} =>
            LET rows == {row \in radar_queries : row.call = c}
                inserts == {d \in DOMAIN calls : calls[d].parent = c}
            IN /\ Cardinality(rows) <= 1
               /\ (/\ calls[c].pc = "done"
                   /\ \A d \in inserts : calls[d].outcome.kind = "return")
                  => Cardinality(rows) = 1

\* C22: the write of a CapturedQuery or CapturedException row that no storage
\* fault hits stores the row, whether or not the CapturedRequest its
\* request_id names exists.
C22_ChildWriteSucceeds ==
    [][\A r \in Reqs :
          /\ (/\ app[r].q.phase = "write" /\ app'[r].q.phase = "idle"
              /\ faults_left' = faults_left)
             => \E row \in radar_queries' : row.by = r /\ row.call = app[r].nq
          /\ (/\ pc[r] = "exc_create" /\ pc'[r] # "exc_create"
              /\ faults_left' = faults_left)
             => \E row \in radar_exceptions' :
                   row.request_id = loc[r].exception_data.request_id]_vars

\* A cleanup or clear_data call has just been made.
Called(op) == api'.op = op /\ api'.n = api.n + 1

\* C23: a cleanup call and an age-filtered clear leave the CapturedQuery and
\* CapturedException rows as they were.
C23_ChildrenLeftByDelete ==
    [][(Called("cleanup") \/ (Called("clear") /\ Truthy(api'.arg)))
       => /\ radar_queries' = radar_queries
          /\ radar_exceptions' = radar_exceptions]_vars

C25_CleanupDeletesOlder ==
    [][(Called("cleanup") /\ api'.arg # None)
       => /\ radar_requests' = {row \in radar_requests : row.created_at >= now - api'.arg[1]}
          /\ api'.result = Cardinality(radar_requests \ radar_requests')]_vars

\* C26: a cleanup call that follows a cleanup call with the same argument, with
\* no write and no tick of the clock between the two, deletes nothing, returns
\* 0 and leaves every table as it was.
C26_SecondCleanupDeletesNothing ==
    [][(/\ Called("cleanup") /\ api.op = "cleanup"
        /\ api'.arg = api.arg /\ api.at = now)
       => /\ api'.result = 0
          /\ dbVars' = dbVars
          /\ radar_background_tasks' = radar_background_tasks]_vars

\* The first of two cleanup calls with the same argument deleted a row, the
\* second, made at the same hour, none.
C26_Witness ==
    /\ api.op = "cleanup" /\ api.last.op = "cleanup"
    /\ api.arg = api.last.arg /\ api.at = api.last.at
    /\ api.last.deleted > 0 /\ api.deleted = 0 /\ api.result = 0
    /\ radar_requests # {}

\* The seven tables.
Tables == <<radar_requests, radar_queries, radar_exceptions, radar_traces, radar_spans,
            radar_span_relations, radar_background_tasks>>

\* C27: after clear_data without an age threshold the seven tables are empty;
\* after clear_data(h) no table holds a row older than h hours.
C27_ClearLeavesNothing ==
    api.op = "clear" =>
        IF api.arg = None
        THEN \A i \in DOMAIN Tables : Tables[i] = {}
        ELSE \A i \in DOMAIN Tables :
                \A row \in Tables[i] : row.created_at >= api.at - api.arg[1]

\* C28: get_waterfall_data(trace_id) lists every stored span of the trace
\* exactly once and nothing else, with offset_ms the span's start less the
\* earliest start among the trace's spans, in ascending offset_ms and, at
\* equal offset_ms, ascending depth; the root and every span without a
\* relation row have depth 0.
C28_Waterfall ==
    api.op = "waterfall" =>
        LET spans == {sp \in radar_spans : sp.trace_id = api.arg}
            result == api.result
        IN /\ \A sp \in spans :
                 Cardinality({i \in DOMAIN result : result[i].span_id = sp.span_id}) = 1
           /\ \A i \in DOMAIN result :
                 \E sp \in spans :
                    /\ result[i].span_id = sp.span_id
                    /\ \A other \in spans :
                          result[i].offset_ms >= sp.start_time - other.start_time
                    /\ \E first \in spans :
                          result[i].offset_ms = sp.start_time - first.start_time
                    /\ (sp.parent_span_id = None
                        \/ \A r \in radar_span_relations : r.child_span_id # sp.span_id)
                       => result[i].depth = 0
           /\ \A i, j \in DOMAIN result :
                 i < j => \/ result[i].offset_ms < result[j].offset_ms
                          \/ /\ result[i].offset_ms = result[j].offset_ms
                             /\ result[i].depth <= result[j].depth

\* Three spans that start at t0, t0 + 10 ms and t0 + 5 ms come out with offsets
\* 0, 5 and 10 ms (the unit is 5 ms): the third one stored is listed second;
\* a span of another trace started before t0.
C28_Witness ==
    /\ api.op = "waterfall" /\ api.arg = TraceT /\ Len(api.result) = 3
    /\ api.result[1].span_id = StoredSpan(1) /\ api.result[1].offset_ms = 0
    /\ api.result[2].span_id = StoredSpan(3) /\ api.result[2].offset_ms = 1
    /\ api.result[3].span_id = StoredSpan(2) /\ api.result[3].offset_ms = 2
    /\ api.result[2].depth = 2
    /\ \E sp \in radar_spans : sp.trace_id = TraceU /\ sp.start_time < api.result[1].start_time

\* The row of invocation t.
TaskRows(t) == {row \in radar_background_tasks : row.task_id = api[t].task}

\* C29: once the wrapper has exited, the task's row is not 'running': it is
\* 'completed' if and only if the function returned, and 'failed' with the
\* exception's text if it raised; the wrapper's outcome is the function's.
C29_RowNeverLeftRunning ==
    \A t \in TaskIds :
        api[t].pc = "done" =>
            /\ api[t].outcome = api[t].pending
            /\ \A row \in TaskRows(t) :
                  /\ row.status # "running"
                  /\ row.status = "completed" <=> api[t].pending.kind = "return"
                  /\ api[t].pending.kind = "raise" =>
                        /\ row.status = "failed"
                        /\ IsException(api[t].pending.exception)
                           => row.error = Str(api[t].pending.exception)

\* C29 as it holds: unless the wrapper is cancelled while it stores the row,
\* its outcome is the function's whatever the store does; the row, when
\* `task.save()` of the finally block stored it, is 'completed' if and only if
\* the function returned, and 'failed', with the text of the exception when it
\* is an Exception, if it raised.
C29_RowFollowsOutcomeWhenSaved ==
    \A t \in TaskIds :
        api[t].pc = "done" =>
            /\ ~api[t].cancelled => api[t].outcome = api[t].pending
            /\ api[t].pending \in FuncOutcomes(t)
            /\ api[t].saved =>
                  \E row \in TaskRows(t) :
                     /\ row.status = "completed" <=> api[t].pending.kind = "return"
                     /\ api[t].pending.kind = "raise" =>
                           /\ row.status = "failed"
                           /\ IsException(api[t].pending.exception)
                              => row.error = Str(api[t].pending.exception)

\* One invocation returned and its row is completed; another raised and its
\* row is failed with the exception's text.
C29_Witness ==
    \E t, u \in TaskIds :
        /\ api[t].pc = "done" /\ api[t].saved /\ api[t].outcome.kind = "return"
        /\ \E row \in TaskRows(t) : row.status = "completed"
        /\ api[u].pc = "done" /\ api[u].saved /\ api[u].outcome.kind = "raise"
        /\ \E row \in TaskRows(u) :
              row.status = "failed" /\ row.error = Str(api[u].outcome.exception)

\* C30: a request body larger than the limit is stored shorter than the
\* original and with the truncation marker; a body at or under the limit is
\* stored verbatim apart from redaction, whatever the content type.
C30_TruncatedOrVerbatim ==
    (api.op = "body" /\ api.body # <<>>) =>
        IF Len(api.body) > api.max_body_size
        THEN /\ api.stored # None
             /\ Len(api.stored) < Len(api.body)
             /\ \E i \in 1..Len(api.stored) : api.stored[i] = "T"
        ELSE api.stored = RedactSensitiveData(api.body)

\* A captured request with a sensitive header and a JSON body that has a
\* sensitive value and another value.
Has(text, b) == \E i \in 1..Len(text) : text[i] = b
Count(text, b) == Len(SelectSeq(text, LAMBDA x : x = b))
SensitiveJsonRequest ==
    /\ api.op = "body"
    /\ "authorization" \in DOMAIN api.request_headers
    /\ api.content_type = "application/json"
    /\ JsonLoads(api.body).ok
    /\ Has(api.body, "s")
    /\ Has(api.body, "d")
Truncated(a) == Len(GetRequestBody(a.body, a.content_type)) > a.max_body_size

\* C31: for a request with a sensitive header and a JSON body with a
\* sensitive field, the stored header is the redaction marker and the stored
\* body has no secret, has the redaction marker and has every non-sensitive
\* value, also when the body is truncated.
C31_RedactedAlsoWhenTruncated ==
    SensitiveJsonRequest =>
        /\ api.headers["authorization"] = "R"
        /\ ~Has(api.stored, "s")
        /\ Has(api.stored, "R")
        /\ Count(api.stored, "d") = Count(api.body, "d")

\* C31 as it holds: the stored header is the redaction marker and the stored
\* body has no secret; a body within the limit has the redaction marker and
\* every non-sensitive value; a truncated body is the redaction of what
\* truncation kept, which may hold neither.
C31_RedactedWhatIsKept ==
    SensitiveJsonRequest =>
        /\ api.headers["authorization"] = "R"
        /\ \A n \in DOMAIN api.headers \ SensitiveHeaders :
              api.headers[n] = api.request_headers[n]
        /\ ~Has(api.stored, "s")
        /\ ~Truncated(api) =>
              /\ Has(api.stored, "R")
              /\ Count(api.stored, "R") = Count(api.body, "s")
              /\ Count(api.stored, "d") = Count(api.body, "d")
        /\ Truncated(api) =>
              /\ Len(api.stored) = api.max_body_size
              /\ api.stored[Len(api.stored)] = "T"
              /\ \A i \in 1..(Len(api.stored) - 1) :
                    LET sent == GetRequestBody(api.body, api.content_type)[i]
                    IN api.stored[i] = IF sent = "s" THEN "R" ELSE sent

\* A truncated body whose kept part had a secret, stored redacted.
C31_Witness ==
    /\ SensitiveJsonRequest
    /\ Truncated(api)
    /\ Has(api.stored, "R")
    /\ "user-agent" \in DOMAIN api.headers

\* The rows the claim expects: one per span below the root, from its parent,
\* with its distance from the root.
RelationsFromRoot(tc) ==
    {[trace_id |-> tc.trace_id,
      parent_span_id |-> tc.spans[SpanIndex(tc, d)].parent_span_id,
      child_span_id |-> d,
      depth |-> PathLength(tc, tc.root_span_id, d, Len(tc.spans))] :
        d \in {x \in SpanIds(tc) : PathLength(tc, tc.root_span_id, x, Len(tc.spans)) >= 1}}

\* C32: save_trace_context stores exactly one SpanRelation row for each span
\* reachable from the root other than the root: (its parent, the span, its
\* distance from the root); a span not reachable from the root gets no row.
C32_OneRelationPerReachableSpan ==
    /\ pc[1] = "relations" =>
          /\ \A i, j \in DOMAIN loc[1].relations :
                loc[1].relations[i] = loc[1].relations[j] => i = j
          /\ \A i \in DOMAIN loc[1].relations :
                \A row \in radar_span_relations :
                    row.child_span_id # loc[1].relations[i].child_span_id
    /\ (pc[1] = "done" /\ \E t \in radar_traces : t.trace_id = trace_ctxs[1].trace_id)
          => radar_span_relations = RelationsFromRoot(trace_ctxs[1])

\* The chain root, child, grandchild and a span whose parent is no span of
\* the trace, persisted: two rows, of depths 1 and 2.
C32_Witness ==
    LET tc == trace_ctxs[1]
    IN /\ pc[1] = "done"
       /\ Len(tc.spans) = 4
       /\ tc.spans[2].parent_span_id = tc.spans[1].span_id
       /\ tc.spans[3].parent_span_id = tc.spans[2].span_id
       /\ tc.spans[4].parent_span_id = UnknownSpanId
       /\ Cardinality(radar_spans) = 4
       /\ {row.depth : row \in radar_span_relations} = {1, 2}
       /\ Cardinality(radar_span_relations) = 2

\* C33: the handler of a captured request is invoked by the step that ends
\* the initial save, with the CapturedRequest row stored when that save
\* succeeded; a CapturedQuery row written for the request by a call of its
\* handler is written when its CapturedRequest row is already stored.
C33_RequestRowBeforeQueryRows ==
    [][\A r \in Reqs :
          /\ (app[r].st = "none" /\ app'[r].st # "none" /\ loc'[r].request_id # None) =>
                /\ pc[r] = "initial_save"
                /\ loc'[r].saved_in_db =>
                      \E row \in radar_requests' : row.request_id = loc[r].request_id
          /\ \A q \in radar_queries' \ radar_queries :
                (q.by = r /\ q.request_id # None /\ q.request_id = loc[r].request_id) =>
                    \E row \in radar_requests : row.request_id = q.request_id]_vars

\* The handler of a request is still running, the initial save stored the
\* request's row, and a call of the handler has its CapturedQuery row.
C33_Witness ==
    \E r \in Reqs :
        /\ pc[r] = "await_app" /\ app[r].st = "running"
        /\ loc[r].saved_in_db
        /\ \E row \in radar_requests : row.request_id = loc[r].request_id
        /\ \E q \in radar_queries : q.by = r /\ q.request_id = loc[r].request_id

\* The client spans of the Trace Context of request r.
ClientSpans(r) ==
    {trace_ctxs[r].spans[i] : i \in {j \in DOMAIN trace_ctxs[r].spans :
                                        trace_ctxs[r].spans[j].span_kind = "client"}}

\* C34: every client span the query-capture listener opens during a traced
\* request has the request's root span as parent, and once the request is
\* completed it is in the store one edge below the root, where the waterfall
\* shows it at depth 1.
C34_QuerySpansUnderRoot ==
    \A r \in Reqs :
        \A span \in ClientSpans(r) :
            /\ span.parent_span_id = loc[r].root_span_id
            /\ pc[r] = "done" =>
                  /\ \E row \in radar_spans : row.span_id = span.span_id
                  /\ \E rel \in radar_span_relations :
                        /\ rel.child_span_id = span.span_id
                        /\ rel.parent_span_id = loc[r].root_span_id
                        /\ rel.depth = 1

\* C35: for every span set built through create_span and set_current_span,
\* with any parent ids and any chain depth, the relation computation ends
\* without an error and emits its rows.
C35_TraversalNeverFails ==
    api.op = "relations" =>
        /\ api.raised = "none"
        /\ {[trace_id |-> trace_ctxs[1].trace_id, parent_span_id |-> rel.parent_span_id,
             child_span_id |-> rel.child_span_id, depth |-> rel.depth] :
               rel \in {api.relations[i] : i \in DOMAIN api.relations}}
           = RelationsFromRoot(trace_ctxs[1])

\* C36: while a response is streamed, the captured copy is stored after each
\* chunk until the accumulated length reaches the size limit or a storage
\* write fails; from then on nothing is accumulated or written for that
\* response, and the chunks that follow are still forwarded.
C36_CaptureStopsForGood ==
    [][\A r \in Reqs :
          /\ (loc[r].stream = "next" /\ loc[r].response_text >= MaxBodySize)
                => ~loc[r].capturing
          /\ (loc[r].stream = "chunk_save" /\ loc'[r].stream # "chunk_save"
                /\ radar_requests' = radar_requests /\ faults_left' < faults_left)
                => ~loc'[r].capturing
          /\ (loc[r].capturing /\ Len(loc'[r].sent) > Len(loc[r].sent))
                => (loc'[r].stream = "chunk_save"
                    /\ loc'[r].response_text = loc[r].response_text + 1)
          /\ (pc[r] = "done" /\ ~loc[r].capturing) =>
                /\ ~loc'[r].capturing
                /\ loc'[r].response_text = loc[r].response_text
                /\ loc'[r].stream # "chunk_save"
                /\ radar_requests' = radar_requests
                /\ Len(loc'[r].sent) > Len(loc[r].sent)
                      => loc'[r].delivered = Append(loc[r].delivered,
                                                    loc'[r].sent[Len(loc'[r].sent)])]_vars

\* Two chunks were stored, which reached the size limit; a third chunk was
\* forwarded with no write.
C36_Witness ==
    /\ pc[1] = "done" /\ Captured(1)
    /\ ~loc[1].capturing
    /\ loc[1].response_text = MaxBodySize
    /\ Len(loc[1].delivered) = MaxBodySize + 1
    /\ \E row \in RowsOf(1) : row.response_body = MaxBodySize

\* C37: a call of a patched class's wrapped execute_query, execute_script or
\* execute_insert runs that class's own original method, also when several
\* backend classes were patched by the same apply_tortoise_patch call.
C37_WrapperRunsOwnOriginal ==
    (api.op = "call" /\ api.classes[api.call.cls]._radar_patched)
        => api.call.ran = <<api.call.cls, api.call.entry>>

\* C38: however many QueryCapture were constructed, each patched class's
\* entry points are wrapped exactly once and a call runs the listeners'
\* before and after exactly once; the listener list grows only by one
\* add_query_listener at a time, one per QueryCapture constructed or host call.
C38_PatchedOnce ==
    [][/\ \A b \in api'.installed :
            /\ api'.classes[b]._radar_patched <=> (api'.captures >= 1)
            /\ api'.classes[b]._radar_patched =>
                  \A entry \in Entries :
                      /\ api'.classes[b][entry].kind = "wrapper"
                      /\ api'.cells[api'.classes[b][entry].cell][entry].kind = "original"
       /\ (api'.op = "call" /\ api'.captures >= 1) => api'.call.rounds = 1
       /\ Len(SelectSeq(listeners', LAMBDA l : l = "QueryCapture")) = api'.captures
       /\ listeners' # listeners =>
             \E l \in ListenerKinds : listeners' = Append(listeners, l)
       /\ api'.captures # api.captures => Len(listeners') = Len(listeners) + 1]_vars

\* Two QueryCapture have been constructed with every backend installed, and
\* a call goes through a wrapped entry point.
C38_Witness ==
    /\ api.op = "call"
    /\ api.captures = 2
    /\ api.installed = BackendSet
    /\ api.call.rounds = 1
    /\ Len(api.cells) = 2

\* C39: a persisted CapturedException row is never misattributed: its
\* correlation id is that of the request whose handler raised the exception
\* the row records, however the failing requests interleave.
C39_ExceptionRowOfItsRequest ==
    \A e \in radar_exceptions :
        /\ \E r \in Reqs : loc[r].request_id = e.request_id
        /\ \A r \in Reqs :
              loc[r].request_id = e.request_id =>
                  /\ app[r].st = "raised"
                  /\ e.exception = app[r].exception

\* Both handlers raised, the row of one request is stored, and the shared
\* cache holds the entry of the other request by then.
C39_Witness ==
    /\ \A r \in Reqs : loc[r].exception_occurred
    /\ \E e \in radar_exceptions :
          /\ exception_cache.request_id # None
          /\ exception_cache.request_id # e.request_id

\* C40: once save_trace_context has returned or failed, a persisted Trace
\* row's span_count equals the number of persisted Span rows of that trace,
\* also when a Span write failed midway or spans were created meanwhile.
C40_SpanCountMatchesSpanRows ==
    \A r \in Reqs :
        (pc[r] = "done" /\ loc[r].traced) =>
            \A t \in radar_traces :
                t.trace_id = trace_ctxs[r].trace_id =>
                    t.span_count =
                        Cardinality({s.span_id : s \in {x \in radar_spans : x.trace_id = t.trace_id}})

\* C7: when the handler of a captured request raises, the except block records
\* the exception under the request's correlation id and logs an error on the
\* root span, and dispatch ends by raising that same exception, whatever
\* storage write of the completion path fails.
C7_Recorded ==
    \A r \in Reqs :
        (pc[r] = "await_app" /\ pc'[r] = "final_save" /\ app[r].st = "raised") =>
            /\ exception_cache' = [request_id |-> loc[r].request_id,
                                   exception |-> app[r].exception]
            /\ loc[r].traced => "error" \in {RootSpan(r)'.logs[i] : i \in DOMAIN RootSpan(r)'.logs}

C7_Reraised ==
    \A r \in Reqs :
        (pc[r] = "done" /\ Captured(r) /\ app[r].st = "raised") =>
            loc[r].outcome = [kind |-> "raise", exception |-> app[r].exception]

C8_HostOutcomeUnchanged ==
    \A r \in Reqs :
        pc[r] = "done" =>
            /\ app[r].st = "raised" =>
                  loc[r].outcome = [kind |-> "raise", exception |-> app[r].exception]
            /\ app[r].st = "responded" =>
                  /\ loc[r].outcome = [kind |-> "return", status |-> "200"]
                  /\ loc[r].delivered = loc[r].sent

\* A response returned and streamed to its end although two storage writes
\* failed, one of them a chunk's save().
C8_Witness ==
    \E r \in Reqs :
        /\ pc[r] = "done" /\ Captured(r) /\ loc[r].outcome.kind = "return"
        /\ loc[r].stream = "closed" /\ Len(loc[r].delivered) = MaxChunks
        /\ ~loc[r].capturing /\ faults_left = 0
        /\ \E row \in RowsOf(r) : row.response_body < loc[r].response_text

\* The rows save_trace_context is to write for request r's Trace Context.
TracePersisted(r) ==
    LET tc == trace_ctxs[r]
        rels == CalculateDepth(tc.root_span_id, tc.spans, 0, Len(tc.spans) + 1).rels
    IN /\ \E t \in radar_traces : t.trace_id = tc.trace_id
       /\ \A i \in DOMAIN tc.spans :
             \E s \in radar_spans : s.span_id = tc.spans[i].span_id /\ s.trace_id = tc.trace_id
       /\ \A j \in DOMAIN rels :
             \E x \in radar_span_relations :
                 /\ x.trace_id = tc.trace_id
                 /\ x.parent_span_id = rels[j].parent_span_id
                 /\ x.child_span_id = rels[j].child_span_id

\* C9: when a captured request completes with tracing enabled and no storage
\* write failing, its Trace row, a Span row for each span of its Trace Context
\* and the derived relations are persisted -- also when it adopted an inbound
\* x-trace-id.  Stated for the requests whose handler made its data-access
\* calls before it responded.
C9_TracePersistedAtCompletion ==
    [][\A r \in Reqs :
          (pc[r] # "done" /\ pc'[r] = "done" /\ loc[r].traced /\ ~app[r].late
             /\ app[r].q.phase = "idle")
          => TracePersisted(r)']_vars

\* C10: a persisted trace has status 'error' exactly if one of its persisted
\* spans has status 'error'; stated of the requests whose save_trace_context
\* has ended after writing the Trace row.
C10_TraceErrorIffSpanError ==
    \A r \in Reqs :
        (pc[r] = "done" /\ loc[r].traced /\ loc[r].it_len > 0) =>
            \A t \in radar_traces :
                t.trace_id = trace_ctxs[r].trace_id =>
                    (t.status = "error" <=>
                         \E s \in radar_spans :
                             s.trace_id = t.trace_id /\ s.status = "error")
====
